---- MODULE Spec2Model ----
(***************************************************************************)
(* async-task-runner: the bounded-concurrency scheduler (TaskRunner.run),  *)
(* its retry loop and timeout wrapper, and the priority/batch queue        *)
(* (AdvancedTaskRunner, PriorityTaskQueue) built on top of it.             *)
(*                                                                         *)
(* JavaScript runs one job at a time: every action below is one job (a     *)
(* synchronous stretch of code between two suspension points).             *)
(* Array positions are 1-based here; the code's 0-based taskIndex is kept  *)
(* as a field, so position p of results holds taskIndex p - 1.             *)
(***************************************************************************)
EXTENDS Integers, Sequences, FiniteSets, TLC

\* ------------------------------------------------------------------ bounds
MaxTasks == 3
MaxConcurrency == 2
MaxRetries == 3
\* the largest retries value explored together with a timeout
MaxTimeoutRetries == 2

\* add() calls on one AdvancedTaskRunner
MaxAdds == 3
\* pause/resume/stop/clear calls on one AdvancedTaskRunner
MaxCtl == 2
\* add() calls on one PriorityTaskQueue
MaxPtqAdds == 5

\* The option values a caller constructs a TaskRunner with.
ConcurrencyValues == 0..MaxConcurrency
RetriesValues == 0..MaxRetries
TimeoutValues == {0, 500}
BackoffValues ==
  { [retryDelay |-> 100,  exponentialBackoff |-> TRUE,  maxRetryDelay |-> 10000],
    [retryDelay |-> 1000, exponentialBackoff |-> TRUE,  maxRetryDelay |-> 1500],
    [retryDelay |-> 100,  exponentialBackoff |-> FALSE, maxRetryDelay |-> 10000] }

Min(a, b) == IF a <= b THEN a ELSE b
Max(a, b) == IF a >= b THEN a ELSE b

\* ------------------------------------------------------------------- state
VARIABLES
  client,        \* which object the caller drives: "runner", "queue", "byid" or "ptq"
  options,       \* TaskRunner.options, as the constructor stored them
  tasks,         \* run(tasks): the array of this invocation (task ids)
  results,       \* run: const results = new Array(tasks.length)
  executing,     \* run: the Set of pending executeTaskWithRetry promises (positions)
  currentIndex,  \* run: let currentIndex
  pc,            \* where run() is: "idle", "loop", "await", "returned"
  raceSet,       \* the promises handed to the pending Promise.race
  slot,          \* per position: the locals of its executeTaskWithRetry call
  startOrder,    \* the task ids in the order their first attempt was started
  lastSummary,   \* runWithSummary: the summary built when run has returned
  qopts,         \* AdvancedTaskRunner.options: the queue's own settings
  qtasks,        \* AdvancedTaskRunner.tasks: the pending list
  isPaused,      \* AdvancedTaskRunner.isPaused
  isStopped,     \* AdvancedTaskRunner.isStopped
  events,        \* what was emitted since run() was last called (since construction,
                 \* before the first call), in order
  qpc,           \* where the queue's run() is: "idle", "all", "batch", "paused", "delay", "done"
  bi,            \* runBatched: the loop variable i
  allResults,    \* runBatched: allResults
  batch,         \* runBatched: the slice being executed
  runResult,     \* what the last call of run() returned (<<>> until it returns)
  runSnapshot,   \* the pending list as it was when run() was called
  nextId,        \* number of add() calls accepted so far
  ctl,           \* number of pause/resume/stop/clear calls, refused calls and repeated
                 \* run() calls made so far
  thrown,        \* the usage error last raised to the caller ("" when none was)
  ptqTasks,      \* PriorityTaskQueue.tasks
  ptqGot         \* what getNext() returned, call by call

runnerVars == <<options, tasks, results, executing, currentIndex, pc, raceSet, slot, startOrder,
               lastSummary>>
queueVars == <<qopts, qtasks, isPaused, isStopped, events, qpc, bi, allResults, batch,
               runResult, runSnapshot, nextId, ctl, thrown>>
ptqVars == <<ptqTasks, ptqGot>>
\* what no step of TaskRunner.run touches
callerVars == <<client, queueVars, ptqVars>>
vars == <<client, runnerVars, queueVars, ptqVars>>

NoResult == [none |-> TRUE]
NoError == [name |-> "none", at |-> 0]

\* new Error('Unknown error'), the initial lastError
UnknownError == [name |-> "Error", at |-> 0]
\* the error raised by attempt k of a task body (rejection or synchronous throw)
TaskError(k) == [name |-> "Error", at |-> k]
\* the TimeoutError withTimeout builds when its timer fires during attempt k
TimeoutError(k) == [name |-> "TimeoutError", at |-> k]

\* error instanceof TimeoutError
isTimeoutError(e) == e.name = "TimeoutError"

\* ------------------------------------------------------------- TaskRunner
\* A constructor that stores the concurrency as it was given.
TaskRunnerOptionsUnclamped(raw) ==
  [ raw EXCEPT !.concurrency = raw.concurrency ]

\* constructor: the options as stored
TaskRunnerOptions(raw) ==
  [ concurrency        |-> Max(1, IF raw.concurrency = 0 THEN 1 ELSE raw.concurrency),
    retries            |-> raw.retries,
    retryDelay         |-> raw.retryDelay,
    exponentialBackoff |-> raw.exponentialBackoff,
    maxRetryDelay      |-> raw.maxRetryDelay,
    timeout            |-> raw.timeout ]

\* A backoff whose exponent is one too large.
calculateRetryDelayOffByOne(attempt, baseDelay) ==
  IF ~options.exponentialBackoff
    THEN baseDelay
    ELSE Min(baseDelay * (2 ^ attempt), options.maxRetryDelay)

calculateRetryDelay(attempt, baseDelay) ==
  IF ~options.exponentialBackoff
    THEN baseDelay
    ELSE Min(baseDelay * (2 ^ (attempt - 1)), options.maxRetryDelay)

\* const maxAttempts = (this.options.retries || 0) + 1
maxAttempts == options.retries + 1

\* if (this.options.timeout): 0 and undefined both mean "no timeout"
hasTimeout == options.timeout # 0

\* The locals of a fresh executeTaskWithRetry call, before its first attempt.
\* log and waited are history variables: the outcome of every attempt made
\* and every backoff delay awaited. abandoned tells whether a body of a
\* timed-out attempt is still running.
FreshSlot ==
  [ phase         |-> "new",
    attempt       |-> 1,
    retryHistory  |-> <<>>,
    lastError     |-> UnknownError,
    totalDuration |-> [exec |-> 0, wait |-> 0],
    curDelay      |-> 0,
    timer         |-> FALSE,
    calls         |-> 0,
    abandoned     |-> FALSE,
    log           |-> <<>>,
    waited        |-> <<>> ]

\* A success result that reports the attempt budget instead of the attempts made.
successResultMaxAttempts(s, taskIndex, t, dur) ==
  [ success         |-> TRUE,
    result          |-> t,
    error           |-> NoError,
    taskIndex       |-> taskIndex,
    attempts        |-> maxAttempts,
    duration        |-> dur,
    timedOut        |-> FALSE,
    retryHistory    |-> s.retryHistory,
    hasRetryHistory |-> Len(s.retryHistory) > 0 ]

\* results[taskIndex] = successResult (lines 152-164); t is the task whose
\* body produced the value.
successResult(s, taskIndex, t, dur) ==
  [ success         |-> TRUE,
    result          |-> t,
    error           |-> NoError,
    taskIndex       |-> taskIndex,
    attempts        |-> s.attempt,
    duration        |-> dur,
    timedOut        |-> FALSE,
    retryHistory    |-> s.retryHistory,
    hasRetryHistory |-> Len(s.retryHistory) > 0 ]

\* A failure result that carries a retryHistory field even when it is empty.
failureResultHistoryAlways(s, taskIndex, err, dur) ==
  [ success         |-> FALSE,
    result          |-> 0,
    error           |-> err,
    taskIndex       |-> taskIndex,
    attempts        |-> maxAttempts,
    duration        |-> dur,
    timedOut        |-> isTimeoutError(err),
    retryHistory    |-> s.retryHistory,
    hasRetryHistory |-> TRUE ]

\* A failure result that never flags a timeout.
failureResultNoFlag(s, taskIndex, err, dur) ==
  [ success         |-> FALSE,
    result          |-> 0,
    error           |-> err,
    taskIndex       |-> taskIndex,
    attempts        |-> maxAttempts,
    duration        |-> dur,
    timedOut        |-> FALSE,
    retryHistory    |-> s.retryHistory,
    hasRetryHistory |-> Len(s.retryHistory) > 0 ]

\* A failure result flagged as timed out when any attempt timed out.
failureResultAnyTimeout(s, taskIndex, err, dur) ==
  [ success         |-> FALSE,
    result          |-> 0,
    error           |-> err,
    taskIndex       |-> taskIndex,
    attempts        |-> maxAttempts,
    duration        |-> dur,
    timedOut        |-> isTimeoutError(err) \/
                        \E k \in 1..Len(s.retryHistory) : s.retryHistory[k].timedOut,
    retryHistory    |-> s.retryHistory,
    hasRetryHistory |-> Len(s.retryHistory) > 0 ]

\* results[taskIndex] = failureResult (lines 200-215)
failureResult(s, taskIndex, err, dur) ==
  [ success         |-> FALSE,
    result          |-> 0,
    error           |-> err,
    taskIndex       |-> taskIndex,
    attempts        |-> maxAttempts,
    duration        |-> dur,
    timedOut        |-> isTimeoutError(err),
    retryHistory    |-> s.retryHistory,
    hasRetryHistory |-> Len(s.retryHistory) > 0 ]

\* A run that stores every result at index 0.
ResultIndexFirst(taskIndex) == 0

\* The index executeTaskWithRetry writes its result at.
ResultIndex(taskIndex) == taskIndex

\* A finally block that leaves the timer armed.
clearTimeoutSkipped(s) == s

\* withTimeout's finally block (timeout.ts lines 80-84): the attempt's timer is
\* cleared. Without a timeout no timer was armed and nothing changes.
clearTimeout(s) == [s EXCEPT !.timer = FALSE]

\* The attempt succeeded (lines 146-165): the result is written and the call returns.
\* Without a timeout the attempt's duration is measured from attemptStartTime,
\* taken before the backoff delay; with one it is withTimeout's own duration.
AttemptSucceeds(s, taskIndex, t) ==
  LET dur == [exec |-> s.totalDuration.exec + 1,
              wait |-> s.totalDuration.wait + (IF hasTimeout THEN 0 ELSE s.curDelay)]
  IN [ slot   |-> [clearTimeout(s) EXCEPT !.phase = "done", !.totalDuration = dur,
                                          !.log = Append(@, "ok")],
       result |-> successResult(s, taskIndex, t, dur) ]

\* A catch block that also records the terminal attempt.
HistoryRecordedAlways(attempt) == attempt <= maxAttempts

\* Line 174: is the failed attempt recorded in retryHistory?
HistoryRecorded(attempt) == attempt < maxAttempts

\* A loop that goes round once more.
LoopContinuesOnceMore(attempt) == attempt <= maxAttempts + 1

\* Line 118: the for loop's condition, for the attempt about to be made.
LoopContinues(attempt) == attempt <= maxAttempts

\* A history entry that drops the timeout flag.
historyEntryNoFlag(s, err) ==
  [ attempt  |-> s.attempt,
    error    |-> err,
    delay    |-> calculateRetryDelay(s.attempt, options.retryDelay),
    duration |-> [exec |-> 1, wait |-> s.curDelay],
    timedOut |-> FALSE ]

\* Lines 176-183: the retryHistory entry of a failed attempt.
historyEntry(s, err) ==
  [ attempt  |-> s.attempt,
    error    |-> err,
    delay    |-> calculateRetryDelay(s.attempt, options.retryDelay),
    duration |-> [exec |-> 1, wait |-> s.curDelay],
    timedOut |-> isTimeoutError(err) ]

\* The attempt failed with err (the catch block, lines 167-197), then either the
\* next iteration starts and suspends in its backoff delay (lines 118-125), or the
\* loop is over and the failure result is written (lines 200-215).
AttemptFails(s, taskIndex, err) ==
  LET dur == [exec |-> s.totalDuration.exec + 1,
              wait |-> s.totalDuration.wait + s.curDelay]
      s1 == [clearTimeout(s) EXCEPT !.totalDuration = dur, !.lastError = err,
                      !.log = Append(@, IF isTimeoutError(err) THEN "timeout" ELSE "error")]
      s2 == IF HistoryRecorded(s.attempt)
              THEN [s1 EXCEPT !.retryHistory = Append(@, historyEntry(s, err))]
              ELSE s1
      next == s.attempt + 1
  IN IF LoopContinues(next)
       THEN [ slot   |-> [s2 EXCEPT !.attempt = next,
                                    !.phase = "delay",
                                    !.curDelay = calculateRetryDelay(next - 1,
                                                                     options.retryDelay)],
              result |-> NoResult ]
       ELSE [ slot   |-> [s2 EXCEPT !.phase = "done"],
              result |-> failureResult(s2, taskIndex, s2.lastError, dur) ]

\* An invocation outside the try block: a synchronous throw ends the call with
\* no result written.
InvokeTaskUncaught(s, taskIndex, throws) ==
  LET s1 == [s EXCEPT !.calls = @ + 1]
  IN IF throws
       THEN [ slot   |-> [s1 EXCEPT !.phase = "done", !.log = Append(@, "error")],
              result |-> NoResult ]
       ELSE [ slot   |-> [s1 EXCEPT !.phase = "body", !.timer = hasTimeout],
              result |-> NoResult ]

\* The task body is invoked for the current attempt: task() at line 142, or inside
\* withTimeout (timeout.ts line 38) after the timer was armed. A body that throws
\* synchronously lands in the catch block within the same job; withTimeout's
\* finally clears the timer on the way.
InvokeTask(s, taskIndex, throws) ==
  LET s1 == [s EXCEPT !.calls = @ + 1, !.timer = hasTimeout]
  IN IF throws
       THEN AttemptFails(s1, taskIndex, TaskError(s.attempt))
       ELSE [ slot   |-> [s1 EXCEPT !.phase = "body"],
              result |-> NoResult ]

\* Store what a step of executeTaskWithRetry at position p produced.
WriteBack(p, r) ==
  /\ slot' = [slot EXCEPT ![p] = r.slot]
  /\ results' = IF r.result = NoResult
                  THEN results
                  ELSE [results EXCEPT ![ResultIndex(p - 1) + 1] = r.result]

\* ------------------------------------------------- generateExecutionSummary
\* no summary was built (yet)
NoSummary == [none |-> TRUE]

\* error.message: the errors of the model are told apart by the attempt that
\* raised them
errorMessage(e) == e.at

\* `${type}:${message}` with type 'timeout' or 'error' (lines 50-53, 73-76)
errorType(e, timedOut) == IF isTimeoutError(e) \/ timedOut THEN "timeout" ELSE "error"

\* errorMap after one more occurrence of the key (type, message) for the task
\* taskIndex (lines 55-68, 78-93). The map keeps its keys in insertion order.
\* A retry's occurrence adds the task index only if it is not there yet.
countError(errorMap, type, message, taskIndex, isRetry) ==
  IF \E k \in 1..Len(errorMap) : errorMap[k].type = type /\ errorMap[k].message = message
    THEN [ k \in 1..Len(errorMap) |->
             IF errorMap[k].type = type /\ errorMap[k].message = message
               THEN [errorMap[k] EXCEPT
                       !.count = @ + 1,
                       !.taskIndexes =
                         IF isRetry /\ \E j \in 1..Len(@) : @[j] = taskIndex
                           THEN @ ELSE Append(@, taskIndex)]
               ELSE errorMap[k] ]
    ELSE Append(errorMap, [ type |-> type, message |-> message, count |-> 1,
                            taskIndexes |-> <<taskIndex>> ])

RECURSIVE countRetries(_, _, _)
\* lines 71-95: the retryHistory entries of one failed result, in order
countRetries(errorMap, history, taskIndex) ==
  IF history = <<>> THEN errorMap
  ELSE countRetries(countError(errorMap,
                               errorType(history[1].error, history[1].timedOut),
                               errorMessage(history[1].error), taskIndex, TRUE),
                    Tail(history), taskIndex)

RECURSIVE countFailed(_, _)
\* lines 47-96: failedResults.forEach
countFailed(errorMap, failedResults) ==
  IF failedResults = <<>> THEN errorMap
  ELSE LET r == failedResults[1]
           own == countError(errorMap, errorType(r.error, r.timedOut),
                             errorMessage(r.error), r.taskIndex, FALSE)
       IN countFailed(IF r.hasRetryHistory
                        THEN countRetries(own, r.retryHistory, r.taskIndex)
                        ELSE own,
                      Tail(failedResults))

RECURSIVE sortAscending(_)
\* taskIndexes.sort((a, b) => a - b), line 102
sortAscending(sq) ==
  IF sq = <<>> THEN <<>>
  ELSE LET done == sortAscending(SubSeq(sq, 1, Len(sq) - 1))
           e == sq[Len(sq)]
           n == Cardinality({k \in 1..Len(done) : done[k] <= e})
       IN SubSeq(done, 1, n) \o <<e>> \o SubSeq(done, n + 1, Len(done))

\* A breakdown left in the order the keys were first seen.
sortByCountSkipped(sq) == sq

RECURSIVE sortByCount(_)
\* .sort((a, b) => b.count - a.count), line 105: stable, descending by count
sortByCount(sq) ==
  IF sq = <<>> THEN <<>>
  ELSE LET done == sortByCount(SubSeq(sq, 1, Len(sq) - 1))
           e == sq[Len(sq)]
           n == Cardinality({k \in 1..Len(done) : done[k].count >= e.count})
       IN SubSeq(done, 1, n) \o <<e>> \o SubSeq(done, n + 1, Len(done))

\* aggregateErrors, lines 38-106 (first and last occurrence are left out: they
\* are wall-clock times)
aggregateErrors(failedResults) ==
  LET errorMap == countFailed(<<>>, failedResults)
  IN sortByCount([ k \in 1..Len(errorMap) |->
                     [errorMap[k] EXCEPT !.taskIndexes = sortAscending(@)] ])

RECURSIVE totalRetries(_)
\* line 12: results.reduce((sum, r) => sum + (r.retryHistory?.length || 0), 0)
totalRetries(rs) ==
  IF rs = <<>> THEN 0
  ELSE (IF rs[1].hasRetryHistory THEN Len(rs[1].retryHistory) ELSE 0) + totalRetries(Tail(rs))

RECURSIVE totalDuration(_)
\* line 18: the sum of the durations
totalDuration(rs) ==
  IF rs = <<>> THEN [exec |-> 0, wait |-> 0]
  ELSE LET rest == totalDuration(Tail(rs))
       IN [exec |-> rs[1].duration.exec + rest.exec, wait |-> rs[1].duration.wait + rest.wait]

\* generateExecutionSummary(results, startTime, endTime), lines 3-36 (the
\* wall-clock fields and the average are left out). filter, reduce and map pass
\* over the slots of the array that were never written.
generateExecutionSummary(rs) ==
  LET written == SelectSeq(rs, LAMBDA r : r # NoResult)
      successful == SelectSeq(written, LAMBDA r : r.success)
      failedResults == SelectSeq(written, LAMBDA r : ~r.success)
      timedOutResults == SelectSeq(written, LAMBDA r : r.timedOut)
  IN [ success       |-> Len(successful),
       failed        |-> Len(failedResults),
       timedOut      |-> Len(timedOutResults),
       retries       |-> totalRetries(written),
       totalDuration |-> totalDuration(written),
       results       |-> rs,
       errors        |-> aggregateErrors(failedResults) ]

\* run(tasks), lines 92-101: the call itself, up to the dispatch loop.
run(ts) ==
  /\ tasks' = ts
  /\ results' = [p \in 1..Len(ts) |-> NoResult]
  /\ executing' = {}
  /\ currentIndex' = 0
  /\ raceSet' = {}
  /\ slot' = [p \in 1..Len(ts) |-> FreshSlot]
  /\ pc' = IF Len(ts) = 0 THEN "returned" ELSE "loop"

\* A dispatch loop that lets one attempt too many in.
CanDispatchOneMore == Cardinality(executing) <= options.concurrency /\ currentIndex < Len(tasks)

\* A dispatch loop that leaves one slot unused.
CanDispatchOneLess == Cardinality(executing) < options.concurrency - 1 /\ currentIndex < Len(tasks)

\* The inner while condition, line 219.
CanDispatch == Cardinality(executing) < options.concurrency /\ currentIndex < Len(tasks)

\* Lines 219-228: start executeTaskWithRetry(currentIndex); it runs synchronously
\* up to its first await, i.e. it invokes the task body for attempt 1.
Dispatch ==
  /\ pc = "loop"
  /\ CanDispatch
  /\ LET p == currentIndex + 1 IN
     /\ \E throws \in BOOLEAN : WriteBack(p, InvokeTask(slot[p], p - 1, throws))
     /\ executing' = executing \cup {p}
     /\ startOrder' = Append(startOrder, tasks[p])
  /\ currentIndex' = currentIndex + 1
  /\ UNCHANGED <<callerVars, options, tasks, pc, raceSet, lastSummary>>

\* Lines 230-232: await Promise.race(executing).
Suspend ==
  /\ pc = "loop"
  /\ ~CanDispatch
  /\ executing # {}
  /\ pc' = "await"
  /\ raceSet' = executing
  /\ UNCHANGED <<callerVars, options, tasks, results, executing, currentIndex, slot, startOrder, lastSummary>>

\* Line 218 is false: the loop is over and run returns results (line 241); a
\* direct caller that used runWithSummary gets the summary of them (lines 249-253).
Return ==
  /\ pc = "loop"
  /\ ~CanDispatch
  /\ executing = {}
  /\ pc' = "returned"
  /\ lastSummary' = IF client = "runner" THEN generateExecutionSummary(results) ELSE lastSummary
  /\ UNCHANGED <<callerVars, options, tasks, results, executing, currentIndex, raceSet, slot, startOrder>>

\* A raced promise has settled and its finally callback has run: the await at
\* line 231 resumes and the outer loop goes round.
Wake ==
  /\ pc = "await"
  /\ \E p \in raceSet : p \notin executing
  /\ pc' = "loop"
  /\ raceSet' = {}
  /\ UNCHANGED <<callerVars, options, tasks, results, executing, currentIndex, slot, startOrder, lastSummary>>

\* Lines 223-225: taskPromise.finally(() => executing.delete(taskPromise)).
Finally(p) ==
  /\ pc = "await"
  /\ p \in executing
  /\ slot[p].phase = "done"
  /\ executing' = executing \ {p}
  /\ UNCHANGED <<callerVars, options, tasks, results, currentIndex, pc, raceSet, slot, startOrder, lastSummary>>

\* Line 125: the backoff delay is over; the body is invoked again.
DelayElapsed(p) ==
  /\ pc = "await"
  /\ slot[p].phase = "delay"
  /\ \E throws \in BOOLEAN :
       WriteBack(p, InvokeTask([slot[p] EXCEPT !.waited = Append(@, slot[p].curDelay)],
                               p - 1, throws))
  /\ UNCHANGED <<callerVars, options, tasks, executing, currentIndex, pc, raceSet, startOrder, lastSummary>>

\* The body's promise resolves (before the timer, if there is one).
TaskResolves(p) ==
  /\ pc = "await"
  /\ slot[p].phase = "body"
  /\ WriteBack(p, AttemptSucceeds(slot[p], p - 1, tasks[p]))
  /\ UNCHANGED <<callerVars, options, tasks, executing, currentIndex, pc, raceSet, startOrder, lastSummary>>

\* The body's promise rejects (before the timer, if there is one).
TaskRejects(p) ==
  /\ pc = "await"
  /\ slot[p].phase = "body"
  /\ WriteBack(p, AttemptFails(slot[p], p - 1, TaskError(slot[p].attempt)))
  /\ UNCHANGED <<callerVars, options, tasks, executing, currentIndex, pc, raceSet, startOrder, lastSummary>>

\* withTimeout: the timer fires first (timeout.ts lines 31-35, 67-76) and is
\* pending no more; the TimedOut outcome's error is thrown at line 136.
TimerFires(p) ==
  /\ pc = "await"
  /\ slot[p].phase = "body"
  /\ slot[p].timer
  /\ WriteBack(p, AttemptFails([slot[p] EXCEPT !.timer = FALSE, !.abandoned = TRUE], p - 1,
                               TimeoutError(slot[p].attempt)))
  /\ UNCHANGED <<callerVars, options, tasks, executing, currentIndex, pc, raceSet, startOrder, lastSummary>>

\* A settlement of an abandoned body that is taken for the attempt's outcome.
SettleAbandonedCounts(s, taskIndex, t) ==
  [ slot   |-> [s EXCEPT !.abandoned = FALSE],
    result |-> successResult(s, taskIndex, t, s.totalDuration) ]

\* The body of a timed-out attempt settles. Promise.race (timeout.ts line 39) was
\* settled by the timer and withTimeout has returned: nothing reads the body's
\* promise any more.
SettleAbandoned(s, taskIndex, t) ==
  [ slot   |-> [s EXCEPT !.abandoned = FALSE],
    result |-> NoResult ]

\* The last still-running body of a timed-out attempt resolves or rejects, while
\* run() is in progress or after it has returned (the settlement of one that is
\* not the last changes nothing at all).
AbandonedSettles(p) ==
  /\ pc \in {"await", "returned"}
  /\ slot[p].abandoned
  /\ WriteBack(p, SettleAbandoned(slot[p], p - 1, tasks[p]))
  /\ UNCHANGED <<callerVars, options, tasks, executing, currentIndex, pc, raceSet, startOrder, lastSummary>>

RunnerStep ==
  \/ Dispatch
  \/ Suspend
  \/ Return
  \/ Wake
  \/ \E p \in DOMAIN slot : Finally(p)
  \/ \E p \in DOMAIN slot : DelayElapsed(p)
  \/ \E p \in DOMAIN slot : TaskResolves(p)
  \/ \E p \in DOMAIN slot : TaskRejects(p)
  \/ \E p \in DOMAIN slot : TimerFires(p)
  \/ \E p \in DOMAIN slot : AbandonedSettles(p)

\* ----------------------------------------------------- AdvancedTaskRunner
\* The priorities callers give their tasks.
PriorityValues == {1, 5, 10}
QueuePriorityValues == {1, 10}

RECURSIVE sortByPriority(_)
\* A sort that puts an entry before the earlier entries of the same priority.
sortByPriorityUnstable(sq) ==
  IF sq = <<>> THEN <<>>
  ELSE LET done == sortByPriority(SubSeq(sq, 1, Len(sq) - 1))
           e == sq[Len(sq)]
           n == Cardinality({k \in 1..Len(done) : done[k].priority > e.priority})
       IN SubSeq(done, 1, n) \o <<e>> \o SubSeq(done, n + 1, Len(done))

\* this.tasks.sort((a, b) => b.priority - a.priority): Array.prototype.sort is
\* stable, so entries of equal priority keep their relative order. Computed as an
\* insertion sort: each entry goes behind every entry that does not sort after it.
sortByPriority(sq) ==
  IF sq = <<>> THEN <<>>
  ELSE LET done == sortByPriority(SubSeq(sq, 1, Len(sq) - 1))
           e == sq[Len(sq)]
           n == Cardinality({k \in 1..Len(done) : done[k].priority >= e.priority})
       IN SubSeq(done, 1, n) \o <<e>> \o SubSeq(done, n + 1, Len(done))

\* constructor, lines 60-72: the options handed to the base TaskRunner
baseOptions(raw) ==
  [ concurrency        |-> IF raw.concurrency = 0 THEN 3 ELSE raw.concurrency,
    retries            |-> raw.retries,
    retryDelay         |-> IF raw.retryDelay = 0 THEN 1000 ELSE raw.retryDelay,
    exponentialBackoff |-> raw.exponentialBackoff,
    maxRetryDelay      |-> IF raw.maxRetryDelay = 0 THEN 30000 ELSE raw.maxRetryDelay,
    timeout            |-> raw.timeout ]

Event(name, a, b) == [name |-> name, a |-> a, b |-> b]

\* A result handed on as the base runner returned it.
WithMetadataDropped(r, e) == r

\* A result with the metadata of entry e attached (lines 155-159, 190-194).
WithMetadata(r, e) == [r EXCEPT !.metadata = e.metadata]
NoMetadata(r) ==
  [ success |-> r.success, result |-> r.result, error |-> r.error,
    taskIndex |-> r.taskIndex, attempts |-> r.attempts, duration |-> r.duration,
    timedOut |-> r.timedOut, retryHistory |-> r.retryHistory,
    hasRetryHistory |-> r.hasRetryHistory, metadata |-> 0 ]

\* The base runner is not running: nothing is left of its last invocation.
RunnerIdle ==
  /\ tasks' = <<>>
  /\ results' = <<>>
  /\ executing' = {}
  /\ currentIndex' = 0
  /\ raceSet' = {}
  /\ slot' = <<>>
  /\ pc' = "idle"

\* A summary whose total is the length of the queue.
summaryOfQueue(all) ==
  [ success |-> Cardinality({k \in 1..Len(all) : all[k].success}),
    failed  |-> Cardinality({k \in 1..Len(all) : ~all[k].success}),
    total   |-> Len(qtasks) ]

\* Lines 127-132: the payload of the complete event, computed from the results
\* run() is about to return.
summary(all) ==
  [ success |-> Cardinality({k \in 1..Len(all) : all[k].success}),
    failed  |-> Cardinality({k \in 1..Len(all) : ~all[k].success}),
    total   |-> Len(all) ]

\* run(), lines 127-134: emit complete and return the results.
Finish(all, ev) ==
  /\ events' = Append(ev, Event("complete", summary(all), 0))
  /\ runResult' = all
  /\ qpc' = "done"
  /\ bi' = 0
  /\ allResults' = <<>>
  /\ batch' = <<>>
  /\ RunnerIdle

\* Line 148: this.tasks.slice(i, i + batchSize)
batchSlice(i) == SubSeq(qtasks, i + 1, Min(i + qopts.batchSize, Len(qtasks)))

\* Lines 149 and 163: Math.floor(i / batchSize) + 1
batchNumber(i) == (i \div qopts.batchSize) + 1

\* runBatched, lines 148-152: slice the next batch, emit batchStart (recorded with
\* the tasks of the batch), run it.
StartBatch(i, all, ev) ==
  LET b == batchSlice(i) IN
  /\ batch' = b
  /\ events' = Append(ev, Event("batchStart", batchNumber(i),
                                [k \in 1..Len(b) |-> b[k].task]))
  /\ run([k \in 1..Len(b) |-> b[k].task])
  /\ qpc' = "batch"
  /\ bi' = i
  /\ allResults' = all
  /\ runResult' = <<>>

\* A loop head that does not wait while isPaused.
LoopTopIgnoresPause(i, all, ev, paused, stopped) ==
  IF i < Len(qtasks) /\ ~stopped THEN StartBatch(i, all, ev) ELSE Finish(all, ev)

\* runBatched, lines 141-146: the head of the for loop for index i, with the
\* flags as they are at that point.
LoopTop(i, all, ev, paused, stopped) ==
  IF i < Len(qtasks) /\ ~stopped
    THEN IF paused
           THEN /\ qpc' = "paused"
                /\ bi' = i
                /\ allResults' = all
                /\ events' = ev
                /\ batch' = <<>>
                /\ runResult' = <<>>
                /\ RunnerIdle
           ELSE StartBatch(i, all, ev)
    ELSE Finish(all, ev)

\* When the caller's calls arrive: between runs of the base runner, or during one,
\* while it is suspended and has not written a result yet. The queue reads its
\* flags and its list only between batches, so a call later in the same batch has
\* the same effect.
CallWindow ==
  /\ client \in {"queue", "byid"}
  /\ \/ pc = "idle"
     \/ pc = "await" /\ \A p \in DOMAIN results : results[p] = NoResult

CanCall == CallWindow /\ ctl < MaxCtl

\* A stopped-queue check that lets every call through.
refusedNever == FALSE

\* Lines 83 and 113: if (this.isStopped) throw
refused == isStopped

\* add(), lines 82-110
add(pr) ==
  /\ CallWindow
  /\ IF refused
       THEN /\ ctl < MaxCtl
            /\ ctl' = ctl + 1
            /\ thrown' = "Cannot add tasks to stopped queue"
            /\ UNCHANGED <<qtasks, nextId>>
       ELSE /\ nextId < MaxAdds
            /\ LET e == [task |-> nextId + 1, priority |-> pr, metadata |-> nextId + 1]
                   pushed == Append(qtasks, e)
               IN qtasks' = IF qopts.priorityQueue THEN sortByPriority(pushed) ELSE pushed
            /\ nextId' = nextId + 1
            /\ UNCHANGED <<ctl, thrown>>
  /\ UNCHANGED <<client, runnerVars, ptqVars, qopts, isPaused, isStopped, events, qpc, bi,
                 allResults, batch, runResult, runSnapshot>>

\* A task list that leaves the last pending entry out.
allTasksButLast == [k \in 1..(Len(qtasks) - 1) |-> qtasks[k].task]

\* runAll, line 186: this.tasks.map(({ task }) => task)
allTasks == [k \in 1..Len(qtasks) |-> qtasks[k].task]

\* run(), lines 112-125, up to the first await. A call on a queue whose earlier
\* run() has returned starts over with the list as it is.
runQueue ==
  /\ client = "queue"
  /\ qpc \in {"idle", "done"}
  /\ pc = "idle"
  /\ IF refused
       THEN /\ ctl < MaxCtl
            /\ ctl' = ctl + 1
            /\ thrown' = "Cannot run stopped queue"
            /\ UNCHANGED <<runnerVars, events, qpc, bi, allResults, batch, runResult, runSnapshot>>
       ELSE /\ qpc = "done" => ctl < MaxCtl
            /\ ctl' = IF qpc = "done" THEN ctl + 1 ELSE ctl
            /\ thrown' = thrown
            /\ runSnapshot' = qtasks
            /\ startOrder' = <<>>
            /\ lastSummary' = lastSummary
            /\ options' = options
            /\ LET ev == <<Event("start", Len(qtasks), 0)>> IN
               IF qopts.batchSize > 0
                 THEN LoopTop(0, <<>>, ev, isPaused, isStopped)
                 ELSE /\ run(allTasks)
                      /\ events' = ev
                      /\ qpc' = "all"
                      /\ bi' = 0
                      /\ allResults' = <<>>
                      /\ batch' = <<>>
                      /\ runResult' = <<>>
  /\ UNCHANGED <<client, ptqVars, qopts, qtasks, isPaused, isStopped, nextId>>

\* runAll, lines 187-196: the base runner returned; metadata is read from
\* this.tasks as it is now.
runAllReturns ==
  /\ client = "queue"
  /\ qpc = "all"
  /\ pc = "returned"
  /\ Finish([k \in 1..Len(results) |->
               IF k <= Len(qtasks) THEN WithMetadata(NoMetadata(results[k]), qtasks[k])
                                   ELSE NoMetadata(results[k])],
            events)
  /\ UNCHANGED <<client, ptqVars, options, startOrder, lastSummary, qopts, qtasks, isPaused, isStopped,
                 runSnapshot, nextId, ctl, thrown>>

\* A stopOnError check that never fires.
stopOnErrorTriggersNever(batchResults) == FALSE

\* Line 167: this.options.stopOnError && batchResults.some(r => !r.success)
stopOnErrorTriggers(batchResults) ==
  qopts.stopOnError /\ \E k \in 1..Len(batchResults) : ~batchResults[k].success

\* Line 172: this.options.pauseOnError && batchResults.some(r => !r.success)
pauseOnErrorTriggers(batchResults) ==
  qopts.pauseOnError /\ \E k \in 1..Len(batchResults) : ~batchResults[k].success

\* runBatched, lines 152-180: the batch returned; its results are merged, the
\* error policies applied, and the loop goes round (or waits for the batch delay).
batchReturns ==
  /\ client = "queue"
  /\ qpc = "batch"
  /\ pc = "returned"
  /\ LET batchResults == [k \in 1..Len(results) |-> WithMetadata(NoMetadata(results[k]), batch[k])]
         all == allResults \o batchResults
         number == batchNumber(bi)
         ev == events \o << Event("batchComplete", number, Len(batchResults)),
                            Event("progress", Len(all), Len(qtasks)) >>
     IN IF stopOnErrorTriggers(batchResults)
          THEN /\ isStopped' = TRUE
               /\ isPaused' = isPaused
               /\ Finish(all, ev)
          ELSE /\ isStopped' = isStopped
               /\ isPaused' = (isPaused \/ pauseOnErrorTriggers(batchResults))
               /\ IF qopts.batchDelay > 0 /\ bi + qopts.batchSize < Len(qtasks)
                    THEN /\ qpc' = "delay"
                         /\ allResults' = all
                         /\ events' = ev
                         /\ batch' = <<>>
                         /\ RunnerIdle
                         /\ UNCHANGED <<bi, runResult>>
                    ELSE LoopTop(bi + qopts.batchSize, all, ev, isPaused', isStopped)
  /\ UNCHANGED <<client, ptqVars, options, startOrder, lastSummary, qopts, qtasks, runSnapshot, nextId, ctl,
                 thrown>>

\* runBatched, line 178: the batch delay is over; i += batchSize and the loop goes round.
batchDelayElapsed ==
  /\ client = "queue"
  /\ qpc = "delay"
  /\ LoopTop(bi + qopts.batchSize, allResults, events, isPaused, isStopped)
  /\ UNCHANGED <<client, ptqVars, options, startOrder, lastSummary, qopts, qtasks, isPaused, isStopped,
                 runSnapshot, nextId, ctl, thrown>>

\* runBatched, lines 144-148: a 100 ms poll ends and finds isPaused false; the
\* batch is sliced and started (a poll that finds it still true changes nothing).
pausePollEnds ==
  /\ client = "queue"
  /\ qpc = "paused"
  /\ ~isPaused
  /\ StartBatch(bi, allResults, events)
  /\ UNCHANGED <<client, ptqVars, options, startOrder, lastSummary, qopts, qtasks, isPaused, isStopped,
                 runSnapshot, nextId, ctl, thrown>>

\* pause(), lines 199-204
pause ==
  /\ CanCall
  /\ ctl' = ctl + 1
  /\ IF ~isStopped
       THEN isPaused' = TRUE /\ events' = Append(events, Event("pause", 0, 0))
       ELSE UNCHANGED <<isPaused, events>>
  /\ UNCHANGED <<client, runnerVars, ptqVars, qopts, qtasks, isStopped, qpc, bi, allResults,
                 batch, runResult, runSnapshot, nextId, thrown>>

\* resume(), lines 206-211
resume ==
  /\ CanCall
  /\ ctl' = ctl + 1
  /\ IF ~isStopped /\ isPaused
       THEN isPaused' = FALSE /\ events' = Append(events, Event("resume", 0, 0))
       ELSE UNCHANGED <<isPaused, events>>
  /\ UNCHANGED <<client, runnerVars, ptqVars, qopts, qtasks, isStopped, qpc, bi, allResults,
                 batch, runResult, runSnapshot, nextId, thrown>>

\* stop(), lines 213-217
stop ==
  /\ CanCall
  /\ ctl' = ctl + 1
  /\ isStopped' = TRUE
  /\ isPaused' = FALSE
  /\ events' = Append(events, Event("stop", 0, 0))
  /\ UNCHANGED <<client, runnerVars, ptqVars, qopts, qtasks, qpc, bi, allResults,
                 batch, runResult, runSnapshot, nextId, thrown>>

\* this.running: no statement of the class ever adds to it (line 33)
running == {}

\* clear(), lines 219-227
clear ==
  /\ CanCall
  /\ ctl' = ctl + 1
  /\ IF Cardinality(running) > 0
       THEN /\ thrown' = "Cannot clear queue while tasks are running"
            /\ UNCHANGED <<qtasks, events>>
       ELSE /\ qtasks' = <<>>
            /\ events' = Append(events, Event("clear", 0, 0))
            /\ thrown' = thrown
  /\ UNCHANGED <<client, runnerVars, ptqVars, qopts, isPaused, isStopped, qpc, bi, allResults,
                 batch, runResult, runSnapshot, nextId>>

\* this.completed and this.failed: no statement of the class ever adds to them
\* (lines 34-35)
completed == <<>>
failed == <<>>

\* status(), lines 229-238
status ==
  [ running   |-> Cardinality(running),
    pending   |-> Len(qtasks) - Len(completed) - Len(failed),
    completed |-> Len(completed),
    failed    |-> Len(failed),
    paused    |-> isPaused,
    stopped   |-> isStopped ]

\* getStatistics(), lines 292-307 (successRate in whole percent; averageDuration
\* is left out: it is a mean over this.completed)
getStatistics ==
  LET total == Len(completed) + Len(failed) IN
  [ total       |-> Len(qtasks),
    completed   |-> Len(completed),
    failed      |-> Len(failed),
    running     |-> Cardinality(running),
    pending     |-> Len(qtasks) - Len(completed) - Len(failed),
    successRate |-> IF total > 0 THEN (Len(completed) * 100) \div total ELSE 0 ]

QueueStep ==
  \/ \E pr \in (IF qopts.priorityQueue THEN QueuePriorityValues ELSE {0}) : add(pr)
  \/ runQueue
  \/ runAllReturns
  \/ batchReturns
  \/ batchDelayElapsed
  \/ pausePollEnds
  \/ pause
  \/ resume
  \/ stop
  \/ clear

\* ------------------------------------------------------ PriorityTaskQueue
\* add(task, priority, metadata), lines 339-348: the metadata is spread after
\* priority, so a priority inside it replaces the argument.
ptqAdd(priority, metaPriority) ==
  /\ client = "ptq"
  /\ Len(ptqTasks) + Len(ptqGot) < MaxPtqAdds
  /\ LET id == Len(ptqTasks) + Len(ptqGot) + 1
         e == [task |-> id,
               priority |-> IF metaPriority = 0 THEN priority ELSE metaPriority]
     IN ptqTasks' = sortByPriority(Append(ptqTasks, e))
  /\ UNCHANGED <<client, runnerVars, queueVars, ptqGot>>

\* getNext(), lines 350-352: this.tasks.shift(). added is the number of add()
\* calls that preceded this call.
ptqGetNext ==
  /\ client = "ptq"
  /\ ptqTasks # <<>>
  /\ ptqGot' = Append(ptqGot, [entry |-> ptqTasks[1], added |-> Len(ptqTasks) + Len(ptqGot)])
  /\ ptqTasks' = SubSeq(ptqTasks, 2, Len(ptqTasks))
  /\ UNCHANGED <<client, runnerVars, queueVars>>

PtqStep ==
  \/ \E pr \in PriorityValues, mp \in {0} \cup PriorityValues : ptqAdd(pr, mp)
  \/ ptqGetNext

\* ------------------------------------------------------- runBatchById
\* The batch ids a caller uses: the k-th task added is tagged with k modulo 2.
BatchIds == {0, 1}
batchIdOf(e) == e.metadata % 2

\* runBatchById, lines 255-261: the entries tagged batchId are filtered out of
\* this.tasks; without any the call throws, otherwise the base runner is started
\* on their tasks.
runBatchById(batchId) ==
  /\ client = "byid"
  /\ qpc = "idle"
  /\ pc = "idle"
  /\ ctl < MaxCtl
  /\ ctl' = ctl + 1
  /\ LET b == SelectSeq(qtasks, LAMBDA e : batchIdOf(e) = batchId) IN
     IF Len(b) = 0
       THEN /\ thrown' = "No tasks found for batch"
            /\ UNCHANGED <<runnerVars, qpc, batch, runResult>>
       ELSE /\ run([k \in 1..Len(b) |-> b[k].task])
            /\ batch' = b
            /\ qpc' = "byId"
            /\ runResult' = <<>>
            /\ startOrder' = <<>>
            /\ UNCHANGED <<options, lastSummary, thrown>>
  /\ UNCHANGED <<client, ptqVars, qopts, qtasks, isPaused, isStopped, events, bi, allResults,
                 runSnapshot, nextId>>

\* runBatchById, lines 262-270: the base runner returned; the results get the
\* metadata of the filtered entries and are returned.
runBatchByIdReturns ==
  /\ client = "byid"
  /\ qpc = "byId"
  /\ pc = "returned"
  /\ runResult' = [k \in 1..Len(results) |-> WithMetadata(NoMetadata(results[k]), batch[k])]
  /\ qpc' = "idle"
  /\ batch' = <<>>
  /\ RunnerIdle
  /\ UNCHANGED <<client, ptqVars, options, startOrder, lastSummary, qopts, qtasks, isPaused,
                 isStopped, events, bi, allResults, runSnapshot, nextId, ctl, thrown>>

ByIdStep ==
  \/ \E batchId \in BatchIds : runBatchById(batchId)
  \/ runBatchByIdReturns

\* ------------------------------------------------- a caller of TaskRunner
AllRawOptions ==
  { [ concurrency |-> c, retries |-> r, timeout |-> t,
      retryDelay |-> b.retryDelay, exponentialBackoff |-> b.exponentialBackoff,
      maxRetryDelay |-> b.maxRetryDelay ] :
      c \in ConcurrencyValues, r \in RetriesValues, t \in TimeoutValues, b \in BackoffValues }

\* With a timeout, retries stay within MaxTimeoutRetries and the backoff is the
\* constant one.
RawOptions ==
  { o \in AllRawOptions :
      o.timeout # 0 => (o.retries <= MaxTimeoutRetries /\ ~o.exponentialBackoff) }

\* new TaskRunner(options).run(tasks), or runWithSummary(tasks), with an array
\* of n tasks; for an empty array both return at once (lines 93-95, 244-247)
CallRun(n) ==
  /\ client = "runner"
  /\ pc = "idle"
  /\ run([k \in 1..n |-> k])
  /\ lastSummary' = IF n = 0 THEN generateExecutionSummary(<<>>) ELSE NoSummary
  /\ UNCHANGED <<callerVars, options, startOrder>>

InitRunner ==
  /\ tasks = <<>>
  /\ results = <<>>
  /\ executing = {}
  /\ currentIndex = 0
  /\ pc = "idle"
  /\ raceSet = {}
  /\ slot = <<>>
  /\ startOrder = <<>>
  /\ lastSummary = NoSummary

\* ----------------------------------------- a caller of AdvancedTaskRunner
\* The options a caller constructs an AdvancedTaskRunner with: the base runner's
\* part and the queue's own part.
BaseOpt(c, r, t) ==
  [ concurrency |-> c, retries |-> r, timeout |-> t,
    retryDelay |-> 100, exponentialBackoff |-> FALSE, maxRetryDelay |-> 0 ]

QueueOwnOptions ==
  { o \in [ batchSize : {0, 2}, batchDelay : {0, 50}, priorityQueue : BOOLEAN,
            pauseOnError : BOOLEAN, stopOnError : BOOLEAN ] :
      /\ o.batchSize = 0 => o.batchDelay = 0
      /\ o.priorityQueue => o.batchDelay = 0
      /\ ~(o.pauseOnError /\ o.stopOnError) }

PlainBatches ==
  [ batchSize |-> 2, batchDelay |-> 0, priorityQueue |-> FALSE,
    pauseOnError |-> FALSE, stopOnError |-> FALSE ]

\* Every queue setting with one-at-a-time tasks that are tried once; plain batches
\* with two-at-a-time tasks, with a retry, and with a timeout.
QueueConfigs ==
  { [base |-> BaseOpt(1, 0, 0), own |-> o] : o \in QueueOwnOptions } \cup
  { [base |-> b, own |-> PlainBatches] :
      b \in { BaseOpt(MaxConcurrency, 0, 0), BaseOpt(1, 1, 0), BaseOpt(1, 0, 500) } }

InitQueue ==
  /\ qtasks = <<>>
  /\ isPaused = FALSE
  /\ isStopped = FALSE
  /\ events = <<>>
  /\ qpc = "idle"
  /\ bi = 0
  /\ allResults = <<>>
  /\ batch = <<>>
  /\ runResult = <<>>
  /\ runSnapshot = <<>>
  /\ nextId = 0
  /\ ctl = 0
  /\ thrown = ""

InitPtq ==
  /\ ptqTasks = <<>>
  /\ ptqGot = <<>>

DefaultQueueOptions ==
  [ batchSize |-> 0, batchDelay |-> 0, priorityQueue |-> FALSE,
    pauseOnError |-> FALSE, stopOnError |-> FALSE ]

\* A caller that uses a TaskRunner directly.
Init ==
  /\ client = "runner"
  /\ options \in { TaskRunnerOptions(raw) : raw \in RawOptions }
  /\ InitRunner
  /\ qopts = DefaultQueueOptions
  /\ InitQueue
  /\ InitPtq

Next ==
  \/ \E n \in 0..MaxTasks : CallRun(n)
  \/ RunnerStep

Spec == Init /\ [][Next]_vars

\* A caller that uses an AdvancedTaskRunner through run(), one that uses it
\* through runBatchById, or one that uses a PriorityTaskQueue.
InitQ ==
  /\ client \in {"queue", "byid", "ptq"}
  /\ InitRunner
  /\ InitQueue
  /\ InitPtq
  /\ IF client = "queue"
       THEN \E cfg \in QueueConfigs :
              /\ options = TaskRunnerOptions(baseOptions(cfg.base))
              /\ qopts = cfg.own
       ELSE /\ options = TaskRunnerOptions(baseOptions(BaseOpt(1, 0, 0)))
            /\ qopts = DefaultQueueOptions

NextQ ==
  \/ QueueStep
  \/ ByIdStep
  \/ RunnerStep
  \/ PtqStep

SpecQ == InitQ /\ [][NextQ]_vars

\* ------------------------------------------------ a run under fair scheduling
\* The event loop runs every job that is ready; a backoff timer and a timeout
\* timer that are armed do fire; and, where no timeout is configured, every task
\* body that was invoked settles.
LiveOptions ==
  { o \in RawOptions : o.retries <= 1 /\ ~o.exponentialBackoff /\ o.concurrency # 1 }

InitLive ==
  /\ client = "runner"
  /\ options \in { TaskRunnerOptions(raw) : raw \in LiveOptions }
  /\ InitRunner
  /\ qopts = DefaultQueueOptions
  /\ InitQueue
  /\ InitPtq

BodySettles(p) ==
  /\ p \in DOMAIN slot
  /\ ~hasTimeout
  /\ TaskResolves(p) \/ TaskRejects(p)

TimerExpires(p) == p \in DOMAIN slot /\ TimerFires(p)
BackoffExpires(p) == p \in DOMAIN slot /\ DelayElapsed(p)
FinallyRuns(p) == p \in DOMAIN slot /\ Finally(p)

\* The step of Return, whatever summary it leaves.
Returns ==
  /\ pc = "loop"
  /\ ~CanDispatch
  /\ executing = {}
  /\ pc' = "returned"
  /\ UNCHANGED <<callerVars, options, tasks, results, executing, currentIndex, raceSet, slot, startOrder>>

\* One step of the run that is due: a job of the event loop, a timer, or the
\* settlement of a body that no timer guards.
Progress ==
  \/ Dispatch \/ Suspend \/ Wake
  \/ \E p \in 1..MaxTasks :
       FinallyRuns(p) \/ BackoffExpires(p) \/ TimerExpires(p) \/ BodySettles(p)

\* The run does not stand still for ever while one of its steps is due.
Fairness == WF_vars(Progress) /\ WF_pc(Returns)

SpecLive == InitLive /\ [][Next]_vars /\ Fairness

\* ------------------------------------------------------------------ claims
Positions == DOMAIN slot
HasResult(p) == results[p] # NoResult
Last(sq) == sq[Len(sq)]
\* every attempt made so far by the call at position p failed
AllFailed(p) == \A k \in 1..Len(slot[p].log) : slot[p].log[k] # "ok"
\* every attempt made so far by the call at position p was ended by the timer
AllTimedOut(p) == \A k \in 1..Len(slot[p].log) : slot[p].log[k] = "timeout"

\* C1: run returns exactly N results; the result at index i has taskIndex i and is
\* the outcome of tasks[i] (its value, and the verdict of its own last attempt),
\* whatever the completion order; an empty array is returned as is, with no
\* executeTaskWithRetry call made.
C1_ResultsMatchTasks ==
  pc = "returned" =>
    /\ Len(results) = Len(tasks)
    /\ \A p \in 1..Len(tasks) :
         /\ HasResult(p)
         /\ results[p].taskIndex = p - 1
         /\ slot[p].log # <<>>
         /\ results[p].success = (Last(slot[p].log) = "ok")
         /\ results[p].success => results[p].result = tasks[p]
    /\ Len(tasks) = 0 => (results = <<>> /\ slot = <<>> /\ executing = {} /\ currentIndex = 0)

C1_Witness ==
  /\ pc = "returned"
  /\ Len(results) = 3
  /\ options.concurrency = 2
  /\ results[1].success /\ ~results[2].success /\ results[3].success
  /\ results[3].result = tasks[3]

\* C2: the number of attempts in flight (body invoked, outcome not yet observed by
\* executeTaskWithRetry) never exceeds the concurrency limit, and neither does the
\* executing set.
InFlight == { p \in Positions : slot[p].phase = "body" }

C2_ConcurrencyBound ==
  /\ Cardinality(InFlight) <= options.concurrency
  /\ Cardinality(executing) <= options.concurrency

C2_Witness ==
  /\ Cardinality(InFlight) = 2
  /\ options.concurrency = 2
  /\ Len(tasks) = 3
  /\ currentIndex = 2
  /\ pc = "await"

\* C3: a failed task does not keep run from returning every task's own result: at
\* return every task was invoked and has a result, and a result is a failure
\* exactly when that task's own last attempt failed, carrying that attempt's error.
C3_FailureContained ==
  pc = "returned" =>
    \A p \in 1..Len(tasks) :
      /\ slot[p].calls >= 1
      /\ HasResult(p)
      /\ ~results[p].success = (Last(slot[p].log) # "ok")
      /\ ~results[p].success =>
           /\ results[p].error.at = Len(slot[p].log)
           /\ isTimeoutError(results[p].error) = (Last(slot[p].log) = "timeout")

C3_Witness ==
  /\ pc = "returned"
  /\ Len(tasks) = 3
  /\ options.concurrency = 1
  /\ ~results[1].success /\ ~results[1].timedOut
  /\ ~results[2].success /\ results[2].timedOut
  /\ results[3].success

\* C4: a task that failed on every attempt has success=false, attempts = retries+1,
\* the error of attempt retries+1, and a retryHistory made of exactly the attempts
\* 1..retries, each with its own error.
C4_ExhaustedRetries ==
  \A p \in Positions :
    (HasResult(p) /\ AllFailed(p)) =>
      /\ ~results[p].success
      /\ Len(slot[p].log) = options.retries + 1
      /\ results[p].attempts = options.retries + 1
      /\ results[p].error.at = options.retries + 1
      /\ Len(results[p].retryHistory) = options.retries
      /\ \A k \in 1..options.retries :
           /\ results[p].retryHistory[k].attempt = k
           /\ results[p].retryHistory[k].error.at = k

\* [succeedsImmediately, failsAlways, succeedsOnAttempt3], retries = 3
C4_Witness ==
  /\ pc = "returned"
  /\ options.retries = 3
  /\ Len(tasks) = 3
  /\ slot[1].log = <<"ok">>
  /\ slot[2].log = <<"error", "error", "error", "error">>
  /\ slot[3].log = <<"error", "error", "ok">>
  /\ results[1].attempts = 1 /\ results[2].attempts = 4 /\ results[3].attempts = 3
  /\ results[1].success /\ ~results[2].success /\ results[3].success

\* C5: a task that failed k times and then succeeded has success=true,
\* attempts = k+1 and k history entries, with k <= retries; its body was invoked
\* k+1 times and is never invoked again.
C5_SuccessAfterRetries ==
  \A p \in Positions :
    (slot[p].log # <<>> /\ Last(slot[p].log) = "ok") =>
      LET k == Len(slot[p].log) - 1 IN
      /\ k <= options.retries
      /\ HasResult(p)
      /\ results[p].success
      /\ results[p].attempts = k + 1
      /\ Len(results[p].retryHistory) = k
      /\ slot[p].phase = "done"
      /\ slot[p].calls = k + 1

C5_Witness ==
  \E p \in Positions :
    /\ pc = "returned"
    /\ options.retries = 3
    /\ slot[p].log = <<"error", "error", "ok">>
    /\ results[p].success
    /\ results[p].attempts = 3

\* C6: attempt 1 is made without a delay, and the delay awaited before attempt
\* k > 1 is min(retryDelay * 2^(k-2), maxRetryDelay) with exponential backoff and
\* retryDelay without; 100/10000 gives 100, 200, 400, and no exponential delay
\* exceeds maxRetryDelay.
ExpectedDelay(k) ==
  IF options.exponentialBackoff
    THEN Min(options.retryDelay * (2 ^ (k - 2)), options.maxRetryDelay)
    ELSE options.retryDelay

C6_BackoffDelays ==
  \A p \in Positions :
    /\ slot[p].calls >= 1 => Len(slot[p].waited) = slot[p].calls - 1
    /\ \A j \in 1..Len(slot[p].waited) :
         /\ slot[p].waited[j] = ExpectedDelay(j + 1)
         /\ options.exponentialBackoff => slot[p].waited[j] <= options.maxRetryDelay
    /\ (options.exponentialBackoff /\ options.retryDelay = 100
          /\ options.maxRetryDelay = 10000) =>
         \A j \in 1..Len(slot[p].waited) : slot[p].waited[j] = <<100, 200, 400>>[j]

C6_Witness ==
  \E p \in Positions :
    /\ slot[p].waited = <<100, 200, 400>>
    /\ slot[p].calls = 4

\* C7: with a timeout, a task whose every attempt is ended by the timer gets
\* success=false and timedOut=true after retries+1 attempts (and as many body
\* invocations).
C7_NeverSettles ==
  \A p \in Positions :
    (hasTimeout /\ HasResult(p) /\ AllTimedOut(p)) =>
      /\ ~results[p].success
      /\ results[p].timedOut
      /\ results[p].attempts = options.retries + 1
      /\ slot[p].calls = options.retries + 1
      /\ isTimeoutError(results[p].error)

C7_Witness ==
  /\ pc = "returned"
  /\ options.retries = 1
  /\ Len(tasks) = 3
  /\ results[1].success
  /\ slot[2].log = <<"timeout", "timeout">>
  /\ ~results[2].success /\ results[2].timedOut
  /\ results[3].success

\* C8: a timed-out attempt is booked like any failed attempt: it counts as one
\* attempt; when attempts remain it is followed by a retry and gets a history entry
\* with timedOut=true (other failures get timedOut=false); as the terminal attempt
\* it ends the task with a timed-out failure. Two timeouts and then a completion
\* give success with attempts=3.
C8_TimeoutIsRetried ==
  \A p \in Positions :
    /\ \A k \in 1..Len(slot[p].log) :
         slot[p].log[k] # "ok" =>
           IF k < maxAttempts
             THEN /\ Len(slot[p].retryHistory) >= k
                  /\ slot[p].retryHistory[k].attempt = k
                  /\ slot[p].retryHistory[k].timedOut = (slot[p].log[k] = "timeout")
                  /\ slot[p].attempt > k
             ELSE /\ HasResult(p)
                  /\ ~results[p].success
                  /\ results[p].attempts = k
                  /\ results[p].timedOut = (slot[p].log[k] = "timeout")
    /\ slot[p].log = <<"timeout", "timeout", "ok">> =>
         (HasResult(p) /\ results[p].success /\ results[p].attempts = 3
            /\ results[p].retryHistory[1].timedOut /\ results[p].retryHistory[2].timedOut)

C8_Witness ==
  \E p \in Positions :
    /\ slot[p].log = <<"timeout", "timeout", "ok">>
    /\ results[p].success
    /\ results[p].attempts = 3

\* ----------------------------------------------------------- queue claims
TaskIds(sq) == [k \in 1..Len(sq) |-> sq[k].task]
IsPrefix(a, b) == Len(a) <= Len(b) /\ SubSeq(b, 1, Len(a)) = a
\* a is dispatched before b: higher priority, or the same priority and added earlier
Before(a, b) == a.priority > b.priority \/ (a.priority = b.priority /\ a.task < b.task)
InDispatchOrder(sq) == \A j, k \in 1..Len(sq) : j < k => Before(sq[j], sq[k])
\* the pending list has not been changed by add() or clear() since run() was called
ListUntouched == qtasks = runSnapshot

\* C9: with priority ordering, the pending list of AdvancedTaskRunner is in dispatch
\* order (descending priority, ties in insertion order) after every add(), and a
\* run whose list is not changed meanwhile starts the tasks in that order; a
\* PriorityTaskQueue is in dispatch order too, and what getNext() returns comes
\* before every entry that was in the queue at that call.
C9_PriorityOrder ==
  /\ (client = "queue" /\ qopts.priorityQueue) =>
       /\ InDispatchOrder(qtasks)
       /\ (qpc # "idle" /\ ListUntouched) => IsPrefix(startOrder, TaskIds(runSnapshot))
  /\ InDispatchOrder(ptqTasks)
  /\ \A j \in 1..Len(ptqGot) :
       /\ \A k \in 1..Len(ptqGot) :
            (j < k /\ ptqGot[k].entry.task <= ptqGot[j].added) =>
               Before(ptqGot[j].entry, ptqGot[k].entry)
       /\ \A k \in 1..Len(ptqTasks) :
            ptqTasks[k].task <= ptqGot[j].added => Before(ptqGot[j].entry, ptqTasks[k])

\* priorities [1, 10, 10], concurrency 1: the two priority-10 tasks start first
C9_Witness ==
  /\ client = "queue"
  /\ qopts.priorityQueue
  /\ options.concurrency = 1
  /\ qpc = "done"
  /\ ListUntouched
  /\ Len(qtasks) = 3
  /\ [k \in 1..3 |-> qtasks[k].priority] = <<10, 10, 1>>
  /\ startOrder = <<2, 3, 1>>

BatchStarts == SelectSeq(events, LAMBDA e : e.name = "batchStart")
BatchCompletes == SelectSeq(events, LAMBDA e : e.name = "batchComplete")
CeilDiv(n, b) == (n + b - 1) \div b
\* the k-th chunk of size b of the list sq
Chunk(sq, k, b) == SubSeq(sq, (k - 1) * b + 1, Min(k * b, Len(sq)))

\* A finished, unstopped batched run processed the list the run started with in
\* ceil(N/B) contiguous chunks, with one batchStart and one batchComplete each,
\* numbered 1..ceil(N/B).
BatchesCover(list) ==
  LET n == CeilDiv(Len(list), qopts.batchSize) IN
  /\ Len(BatchStarts) = n
  /\ Len(BatchCompletes) = n
  /\ \A k \in 1..n :
       /\ BatchStarts[k].a = k
       /\ BatchStarts[k].b = TaskIds(Chunk(list, k, qopts.batchSize))
       /\ BatchCompletes[k].a = k
       /\ BatchCompletes[k].b = Len(Chunk(list, k, qopts.batchSize))

BatchedRunFinished ==
  client = "queue" /\ qopts.batchSize > 0 /\ qpc = "done" /\ ~isStopped

\* every add() so far came before run() was called, and its entry was pending then
NothingAdded == nextId = Len(runSnapshot)

\* C10: a batched run that is not stopped and does finish, and during which the
\* caller added nothing, has processed the N entries pending at its start in
\* ceil(N/B) contiguous chunks, with one batchStart and one batchComplete per
\* chunk, numbered 1..ceil(N/B).
C10_AsStated == (BatchedRunFinished /\ NothingAdded) => BatchesCover(runSnapshot)

\* What the code does guarantee: the same, for runs during which the pending
\* list was not changed at all, by add() or by clear().
C10_Batches == (BatchedRunFinished /\ ListUntouched) => BatchesCover(runSnapshot)

C10_Witness ==
  /\ BatchedRunFinished
  /\ ListUntouched
  /\ Len(runSnapshot) = 3
  /\ Len(BatchStarts) = 2
  /\ Len(BatchStarts[1].b) = 2 /\ Len(BatchStarts[2].b) = 1
  /\ Len(BatchCompletes) = 2
  /\ Len(runResult) = 3
\* ------------------------------------------------------------------ C11
\* the results of the last completed batch, as they stand in the list sq
LastBatchOf(sq) ==
  IF BatchCompletes = <<>> THEN <<>>
  ELSE SubSeq(sq, Len(sq) - Last(BatchCompletes).b + 1, Len(sq))
RECURSIVE SumSizes(_)
\* the number of results the batchComplete events of ev account for
SumSizes(ev) == IF ev = <<>> THEN 0 ELSE ev[1].b + SumSizes(Tail(ev))
SomeFailed(sq) == \E k \in 1..Len(sq) : ~sq[k].success
\* the results merged so far by the run in progress, or returned by the finished run
Merged == IF qpc = "done" THEN runResult ELSE allResults

\* C11: with stopOnError in batch mode, a failed result exists only in the last
\* completed batch, and once there is one the queue is Stopped, the run has
\* returned exactly the results merged up to and including that batch, every
\* batch started has completed, and status().stopped is true.
C11_StopOnError ==
  (client = "queue" /\ qopts.stopOnError /\ qopts.batchSize > 0) =>
    /\ \A k \in 1..Len(Merged) :
         ~Merged[k].success => k > Len(Merged) - Len(LastBatchOf(Merged))
    /\ SomeFailed(Merged) =>
         /\ qpc = "done"
         /\ isStopped
         /\ status.stopped
         /\ Len(BatchStarts) = Len(BatchCompletes)
         /\ Len(runResult) = SumSizes(BatchCompletes)

\* three tasks, batches of 2, a failure in the first batch: two results, Stopped
C11_Witness ==
  /\ client = "queue" /\ qopts.stopOnError /\ qopts.batchSize = 2
  /\ Len(runSnapshot) = 3 /\ ListUntouched
  /\ qpc = "done"
  /\ Len(runResult) = 2
  /\ SomeFailed(runResult)
  /\ Len(BatchStarts) = 1
  /\ status.stopped
\* ------------------------------------------------------------------ C12
\* the results of batch k of the run, as merged
BatchResultsOf(k) ==
  SubSeq(Merged, SumSizes(SubSeq(BatchCompletes, 1, k - 1)) + 1,
                 SumSizes(SubSeq(BatchCompletes, 1, k)))
\* a call named by names was made between events p and q
CalledBetween(names, p, q) == \E r \in (p + 1)..(q - 1) : events[r].name \in names
\* after a batch with a failed result, the next batch was started only after one
\* of the calls named by names
NextBatchOnlyAfter(names) ==
  \A p, q \in 1..Len(events) :
    ( /\ p < q
      /\ events[p].name = "batchComplete"
      /\ events[q].name = "batchStart"
      /\ events[q].a = events[p].a + 1
      /\ SomeFailed(BatchResultsOf(events[p].a)) ) => CalledBetween(names, p, q)
PauseOnErrorRun == client = "queue" /\ qopts.pauseOnError /\ qopts.batchSize > 0

\* C12: with pauseOnError in batch mode, after a batch with a failed result the
\* queue is Paused until a call changes that, the next batch is started only
\* after resume() was called, and a run that finished unstopped, its list left
\* alone, returned the results of all N entries.
C12_AsStated ==
  PauseOnErrorRun =>
    /\ NextBatchOnlyAfter({"resume"})
    /\ (qpc = "paused" /\ SomeFailed(allResults)) => Len(BatchStarts) = Len(BatchCompletes)
    /\ (qpc = "done" /\ ~isStopped /\ ListUntouched) => Len(runResult) = Len(runSnapshot)

\* What the code does guarantee: the next batch is started only after resume()
\* or stop() ended the pause.
C12_PauseOnError ==
  PauseOnErrorRun =>
    /\ NextBatchOnlyAfter({"resume", "stop"})
    /\ (qpc = "paused" /\ SomeFailed(allResults)) => Len(BatchStarts) = Len(BatchCompletes)
    /\ (qpc = "done" /\ ~isStopped /\ ListUntouched) => Len(runResult) = Len(runSnapshot)

\* three tasks, batches of 2, a failure in the first batch, resume(): three results
C12_Witness ==
  /\ PauseOnErrorRun
  /\ qopts.batchSize = 2
  /\ Len(runSnapshot) = 3 /\ ListUntouched
  /\ qpc = "done" /\ ~isStopped
  /\ SomeFailed(BatchResultsOf(1))
  /\ \E r \in 1..Len(events) : events[r].name = "resume"
  /\ Len(BatchStarts) = 2
  /\ Len(runResult) = 3
\* ------------------------------------------------------------------ C13
UsageErrors == {"Cannot add tasks to stopped queue", "Cannot run stopped queue"}

\* C13: once the queue is Stopped no step adds an entry or starts a run; an add()
\* or run() made then raises its usage error to the caller, and the step that
\* raises it leaves the pending list, the flags, the event stream and the base
\* runner as they were.
C13_StoppedRefuses ==
  [][ client = "queue" =>
      /\ isStopped =>
           /\ nextId' = nextId
           /\ Len(qtasks') <= Len(qtasks)
           /\ qpc \in {"idle", "done"} =>
                /\ qpc' = qpc
                /\ UNCHANGED runnerVars
                /\ \/ events' = events
                   \/ /\ Len(events') = Len(events) + 1
                      /\ Last(events').name # "start"
      /\ thrown' # thrown =>
           /\ isStopped
           /\ thrown' \in UsageErrors
           /\ UNCHANGED <<qtasks, nextId, isPaused, isStopped, events, qpc, runnerVars,
                          runResult, allResults, batch, bi>> ]_vars

\* after stop(), a call was refused on a queue that holds an entry
C13_Witness ==
  /\ client = "queue"
  /\ isStopped
  /\ thrown \in UsageErrors
  /\ ctl = 2
  /\ qtasks # <<>>
  /\ events # <<>>
  /\ Last(events).name = "stop"
\* ------------------------------------------------------------------ C14
\* a task the queue's run() dispatched has not completed yet
TaskInFlight == client = "queue" /\ executing # {}

\* C14: while a task of the queue is in flight no step clears the pending list:
\* no clear event is emitted and the list does not shrink (a clear() made then
\* throws instead).
C14_AsStated ==
  [][ TaskInFlight =>
        /\ events' # Append(events, Event("clear", 0, 0))
        /\ Len(qtasks') >= Len(qtasks) ]_vars
\* ------------------------------------------------------------------ C15
\* the step emits a batchStart
StartsBatch ==
  \E r \in (Len(events) + 1)..Len(events') : events'[r].name = "batchStart"

\* C15: once the queue is Stopped no step starts a batch, wherever the run loop
\* was when stop() was called.
C15_AsStated == [][ (client = "queue" /\ isStopped) => ~StartsBatch ]_vars

\* What the code does guarantee: a stopped queue starts a batch only when stop()
\* found the run loop waiting in the paused poll.
C15_StopAtLoopHead ==
  [][ (client = "queue" /\ isStopped /\ qpc # "paused") => ~StartsBatch ]_vars
\* ------------------------------------------------------------------ C16
BatchedQueue == client = "queue" /\ qopts.batchSize > 0
\* the entries the batchStart events of ev account for
RECURSIVE SumStarted(_)
SumStarted(ev) == IF ev = <<>> THEN 0 ELSE Len(ev[1].b) + SumStarted(Tail(ev))
EventAt(name, lo, hi) == \E r \in lo..hi : events[r].name = name
IndexOf(name, a) == CHOOSE r \in 1..Len(events) : events[r].name = name /\ events[r].a = a

\* C16, first part: in a batched run no step starts a batch, or hands the base
\* runner a list, while the queue is paused.
C16_NoStartWhilePaused ==
  [][ (BatchedQueue /\ isPaused) => (~StartsBatch /\ (pc = "idle" => pc' = "idle")) ]_vars

\* C16, second part: when the loop waits in the paused poll every batch that was
\* started has completed with a result for each of its tasks; and a batched run
\* that finished unstopped, its list left alone, returned one result per entry,
\* in list order, none lost and none twice.
C16_DrainsAndLosesNothing ==
  BatchedQueue =>
    /\ qpc = "paused" =>
         /\ Len(BatchStarts) = Len(BatchCompletes)
         /\ Len(allResults) = SumStarted(BatchStarts)
    /\ (qpc = "done" /\ ~isStopped /\ ListUntouched) =>
         [k \in 1..Len(runResult) |-> runResult[k].metadata] = TaskIds(runSnapshot)

\* C16: while paused no batch starts, a dispatched batch drains, and a batched run
\* with pause() and resume() returns every entry's result exactly once (both parts).
C16_PauseResume == C16_NoStartWhilePaused /\ []C16_DrainsAndLosesNothing

\* three tasks, batches of 2: pause() during batch 1, resume() before batch 2,
\* three results
C16_Witness ==
  /\ BatchedQueue /\ qopts.batchSize = 2
  /\ Len(runSnapshot) = 3 /\ ListUntouched
  /\ qpc = "done" /\ ~isStopped
  /\ Len(BatchStarts) = 2
  /\ EventAt("pause", IndexOf("batchStart", 1), IndexOf("batchComplete", 1))
  /\ EventAt("resume", IndexOf("batchComplete", 1), IndexOf("batchStart", 2))
  /\ Len(runResult) = 3
\* ------------------------------------------------------------------ C17
\* a run() has returned, unstopped, after processing entries
Completed == client = "queue" /\ qpc = "done" /\ ~isStopped /\ runResult # <<>>
Stopped == client = "queue" /\ isStopped

\* C17: Stopped and Completed are terminal: a Stopped queue stays Stopped, and a
\* Completed queue stays where it is with no task handed to the base runner
\* again.
C17_AsStated ==
  [][ /\ Stopped => isStopped'
      /\ Completed => (qpc' = "done" /\ tasks' = <<>>) ]_vars

\* What the code does guarantee: a Stopped queue stays Stopped.
C17_StoppedStays == [][ Stopped => isStopped' ]_vars
\* ------------------------------------------------------------------ C18
\* The submission index of an entry: the number of add() calls before its own.
\* (add() gives the k-th entry the task k and the metadata k.)
SubmissionIndex(id) == id - 1
QueueReturned == client = "queue" /\ qpc = "done"

\* C18: in the array run() returned no two results carry the same taskIndex, and
\* (for a queue whose every add() preceded the run and was still pending then)
\* each result's taskIndex is the submission index of its task.
C18_AsStated ==
  QueueReturned =>
    /\ \A j, k \in 1..Len(runResult) :
         j # k => runResult[j].taskIndex # runResult[k].taskIndex
    /\ (NothingAdded /\ ListUntouched) =>
         \A k \in 1..Len(runResult) :
           runResult[k].taskIndex = SubmissionIndex(runResult[k].metadata)

\* What the code does guarantee: taskIndex is the position of the task in the
\* list handed to the base runner, that is, in its batch (the whole list in an
\* unbatched run).
C18_IndexInBatch ==
  (QueueReturned /\ ListUntouched) =>
    \A k \in 1..Len(runResult) :
      runResult[k].taskIndex =
        IF qopts.batchSize > 0 THEN (k - 1) % qopts.batchSize ELSE k - 1
\* ------------------------------------------------------------------ C19
\* C19: a task body is never invoked more than retries+1 times; a task with a
\* result was invoked at least once, and the result's attempts field is the
\* number of invocations; when run returns every task has been invoked.
C19_AttemptsCountCalls ==
  /\ \A p \in Positions :
       /\ slot[p].calls <= options.retries + 1
       /\ HasResult(p) =>
            /\ slot[p].calls >= 1
            /\ results[p].attempts = slot[p].calls
            /\ results[p].attempts <= maxAttempts
  /\ pc = "returned" => \A p \in Positions : slot[p].calls >= 1

\* retries = 3: one task took two invocations, another all four
C19_Witness ==
  /\ pc = "returned"
  /\ options.retries = 3
  /\ \E p, q \in Positions :
       /\ slot[p].calls = 2 /\ results[p].attempts = 2 /\ results[p].success
       /\ slot[q].calls = 4 /\ results[q].attempts = 4 /\ ~results[q].success
\* ------------------------------------------------------------------ C20
\* C20: every result, successful or failed, has attempts - 1 history entries,
\* numbered 1..attempts-1 in order, and carries the retryHistory field exactly
\* when attempts > 1.
C20_HistoryLength ==
  \A p \in Positions :
    HasResult(p) =>
      /\ Len(results[p].retryHistory) = results[p].attempts - 1
      /\ \A k \in 1..Len(results[p].retryHistory) : results[p].retryHistory[k].attempt = k
      /\ results[p].hasRetryHistory <=> results[p].attempts # 1

\* a first-attempt success without the field, a success and a failure with it
C20_Witness ==
  /\ pc = "returned"
  /\ \E p, q, r \in Positions :
       /\ results[p].success /\ results[p].attempts = 1 /\ ~results[p].hasRetryHistory
       /\ results[q].success /\ results[q].attempts = 3 /\ Len(results[q].retryHistory) = 2
       /\ ~results[r].success /\ results[r].attempts = 3 /\ Len(results[r].retryHistory) = 2
\* ------------------------------------------------------------------ C21
\* Durations are kept as [exec, wait]: the number of attempts executed (each
\* executes for one unit d) and the backoff time counted in.
RECURSIVE SumSeq(_)
SumSeq(sq) == IF sq = <<>> THEN 0 ELSE sq[1] + SumSeq(Tail(sq))

\* C21: the duration of a result is a*d for a attempts and holds no backoff
\* waiting time.
C21_AsStated ==
  \A p \in Positions :
    HasResult(p) => results[p].duration = [exec |-> results[p].attempts, wait |-> 0]

\* What the code does guarantee: the duration holds a*d plus every backoff delay
\* waited, except the one before a successful attempt made under a timeout
\* (attemptStartTime is taken before the delay, line 119; only withTimeout's
\* own duration, used at line 139, starts after it).
C21_DurationWithWaits ==
  \A p \in Positions :
    HasResult(p) =>
      /\ results[p].duration.exec = results[p].attempts
      /\ results[p].duration.wait =
           SumSeq(slot[p].waited)
             - (IF results[p].success /\ hasTimeout /\ slot[p].waited # <<>>
                  THEN Last(slot[p].waited) ELSE 0)
\* ------------------------------------------------------------------ C22
\* the step settles the abandoned body of the call at position p
SettlesAbandonedAt(p) ==
  /\ p \in DOMAIN slot /\ p \in DOMAIN slot'
  /\ slot[p].abandoned /\ ~slot'[p].abandoned

\* no step changes a result that is written
WrittenOnce ==
  \A p \in Positions : HasResult(p) => (p \in DOMAIN results' /\ results'[p] = results[p])

\* the settlement of an abandoned body leaves the call's attempt count, history,
\* calls made and every result as they are
SettlementIgnored ==
  \A p \in Positions :
    SettlesAbandonedAt(p) =>
      /\ slot'[p] = [slot[p] EXCEPT !.abandoned = FALSE]
      /\ results' = results

\* C22: the verdict of a timed-out attempt is final: a later settlement of its
\* still-running body changes neither the task's result nor its attempt count nor
\* its retryHistory, and every result slot is written exactly once (never
\* rewritten, and written by the time run returns).
C22_VerdictFinal ==
  /\ [][WrittenOnce /\ SettlementIgnored]_vars
  /\ [](pc = "returned" => \A p \in Positions : HasResult(p))

\* run has returned a timed-out failure whose last attempt's body settled
\* afterwards, next to a task that succeeded after a timed-out first attempt
\* whose body has settled too
C22_Witness ==
  /\ pc = "returned"
  /\ \E p, q \in Positions :
       /\ ~results[p].success /\ results[p].timedOut
       /\ Last(slot[p].log) = "timeout" /\ ~slot[p].abandoned
       /\ slot[q].log = <<"timeout", "ok">> /\ results[q].success
       /\ ~slot[q].abandoned
\* ------------------------------------------------------------------ C23
\* C23: whenever withTimeout has finished for an attempt (the body resolved
\* first, rejected first, threw synchronously, or the timer fired first), no
\* timer of that attempt is pending: a timer is pending only while the attempt's
\* body is awaited under a timeout.
C23_NoTimerLeft ==
  \A p \in Positions :
    slot[p].timer => (hasTimeout /\ slot[p].phase = "body")

\* under a timeout and with no timer pending: an attempt ended by the timer, then
\* one that failed (by rejection or synchronous throw), then one that resolved;
\* a sibling whose only attempt failed; a third task waiting with its timer armed
C23_Witness ==
  /\ hasTimeout
  /\ \E p, q, r \in Positions :
       /\ slot[p].log = <<"timeout", "error", "ok">> /\ ~slot[p].timer
       /\ slot[q].log = <<"error">> /\ slot[q].phase = "delay" /\ ~slot[q].timer
       /\ slot[r].phase = "body" /\ slot[r].timer
\* ------------------------------------------------------------------ C24
\* the positions of the events called name emitted since the last accepted run()
EventsNamed(name) == { r \in 1..Len(events) : events[r].name = name }
BatchEvents == EventsNamed("batchStart") \cup EventsNamed("batchComplete")

\* C24: an accepted run() of the queue emits start(total) exactly once, before
\* any batchStart, and complete(summary) exactly once, when it returns and after
\* the last batchComplete, also when stop() or stopOnError ended it early; the
\* summary has success + failed = total = the number of results returned.
C24_StartAndComplete ==
  (client = "queue" /\ qpc # "idle") =>
    /\ EventsNamed("start") = {1}
    /\ events[1].a = Len(runSnapshot)
    /\ qpc # "done" => EventsNamed("complete") = {}
    /\ qpc = "done" =>
         \E c \in 1..Len(events) :
           /\ EventsNamed("complete") = {c}
           /\ \A r \in BatchEvents : r < c
           /\ events[c].a.success + events[c].a.failed = events[c].a.total
           /\ events[c].a.total = Len(runResult)
           /\ events[c].a.success =
                Cardinality({k \in 1..Len(runResult) : runResult[k].success})

\* a batched run of three entries that stop() ended after its first batch of
\* two, one succeeded and one failed
C24_Witness ==
  /\ client = "queue" /\ qpc = "done" /\ isStopped
  /\ Len(runSnapshot) = 3 /\ Len(runResult) = 2
  /\ EventAt("stop", 1, Len(events))
  /\ Len(BatchCompletes) = 1
  /\ \E c \in EventsNamed("complete") :
       events[c].a = [success |-> 1, failed |-> 1, total |-> 2]
\* ------------------------------------------------------------------ C25
\* The handlers of eventHandlers, and the listeners an EventDrivenTaskRunner
\* built with all of them has per event name: the base constructor registers each
\* handler under its own key (lines 75-79: this.on('onStart', ...), ...), the
\* subclass registers forwarding listeners for taskStart, taskRetry, taskSuccess,
\* taskError, taskTimeout and progress (lines 385-419).
HandlerNames == {"onStart", "onRetry", "onSuccess", "onError", "onTimeout", "onComplete", "onProgress"}
listeners(name) ==
  (IF name \in HandlerNames THEN {name} ELSE {})
    \cup (CASE name = "taskStart"   -> {"onStart"}
            [] name = "taskRetry"   -> {"onRetry"}
            [] name = "taskSuccess" -> {"onSuccess"}
            [] name = "taskError"   -> {"onError"}
            [] name = "taskTimeout" -> {"onTimeout"}
            [] name = "progress"    -> {"onProgress"}
            [] OTHER                -> {})
\* how often the handler h was invoked by the events emitted since run() was called
Invoked(h) == Cardinality({ r \in 1..Len(events) : h \in listeners(events[r].name) })
RECURSIVE SumRetries(_)
SumRetries(sq) == IF sq = <<>> THEN 0 ELSE (sq[1].attempts - 1) + SumRetries(Tail(sq))

\* C25: when run() has returned, onStart was invoked (if there was a task),
\* onSuccess once per successful task, onError once per failed task, onComplete
\* once, and onRetry once per retry.
C25_AsStated ==
  QueueReturned =>
    /\ Len(runResult) > 0 => Invoked("onStart") >= 1
    /\ Invoked("onSuccess") = Cardinality({k \in 1..Len(runResult) : runResult[k].success})
    /\ Invoked("onError") = Cardinality({k \in 1..Len(runResult) : ~runResult[k].success})
    /\ Invoked("onComplete") = 1
    /\ Invoked("onRetry") = SumRetries(runResult)

\* What the code does: of the handlers only onProgress is ever invoked, once per
\* progress event, that is, once per completed batch of a batched run.
C25_OnlyProgress ==
  client = "queue" =>
    /\ \A h \in HandlerNames \ {"onProgress"} : Invoked(h) = 0
    /\ Invoked("onProgress") = Len(BatchCompletes)
\* ------------------------------------------------------------------ C26
Successes(sq) == Cardinality({k \in 1..Len(sq) : sq[k].success})
Failures(sq) == Cardinality({k \in 1..Len(sq) : ~sq[k].success})
\* run() has returned, was not stopped, and the list is the one it started with
RanToTheEnd == QueueReturned /\ ~isStopped /\ ListUntouched /\ NothingAdded

\* C26: after run() has completed, getStatistics() and status() reflect the run
\* (total = tasks added, completed = successful results, failed = failed results,
\* pending = 0, running = 0); a fresh queue reports 0 for pending, running and
\* completed.
C26_AsStated ==
  /\ RanToTheEnd =>
       /\ getStatistics.total = nextId
       /\ getStatistics.completed = Successes(runResult)
       /\ getStatistics.failed = Failures(runResult)
       /\ getStatistics.pending = 0 /\ getStatistics.running = 0
       /\ status.completed = Successes(runResult)
       /\ status.failed = Failures(runResult)
       /\ status.pending = 0 /\ status.running = 0
  /\ (client = "queue" /\ qpc = "idle" /\ nextId = 0) =>
       (status.pending = 0 /\ status.running = 0 /\ status.completed = 0)

\* What the code does guarantee: the counts of completed, failed and running
\* tasks are 0 at all times and pending is the length of the list, run or not.
C26_CountsStayZero ==
  client = "queue" =>
    /\ status.completed = 0 /\ status.failed = 0 /\ status.running = 0
    /\ status.pending = Len(qtasks)
    /\ getStatistics = [ total |-> Len(qtasks), completed |-> 0, failed |-> 0,
                         running |-> 0, pending |-> Len(qtasks), successRate |-> 0 ]
\* ------------------------------------------------------------------ C27
\* C27: when the list was not changed by add() or clear() since run() was
\* called, every result run() returned carries the metadata given at the add()
\* of the task that produced it: the k-th result is the outcome of the k-th entry
\* of the list and has that entry's metadata, and a successful result's value is
\* the value of the task added with that metadata. (add() gives the k-th task
\* added the metadata k.)
C27_MetadataKept ==
  (QueueReturned /\ ListUntouched) =>
    \A k \in 1..Len(runResult) :
      /\ runResult[k].metadata = runSnapshot[k].metadata
      /\ runResult[k].metadata = runSnapshot[k].task
      /\ runResult[k].success => runResult[k].result = runResult[k].metadata

\* a prioritised, batched run of three entries in which the entry added last ran
\* first and failed and the entry added second ran last, in batch 2, and succeeded
C27_Witness ==
  /\ QueueReturned /\ ListUntouched /\ Len(runResult) = 3
  /\ qopts.priorityQueue /\ qopts.batchSize = 2
  /\ runResult[1].metadata = 3 /\ ~runResult[1].success
  /\ runResult[3].metadata = 2 /\ runResult[3].success
\* ------------------------------------------------------------------ C28
\* a batched run without stopOnError and pauseOnError has returned, unstopped
PlainBatchedRunFinished ==
  BatchedRunFinished /\ ~qopts.stopOnError /\ ~qopts.pauseOnError
\* run() returned one result per entry of list, in list order, the failed tasks
\* among them, and a batch was run for every chunk of the list
AllInQueueOrder(list) ==
  /\ Len(runResult) = Len(list)
  /\ \A k \in 1..Len(runResult) :
       /\ runResult[k].metadata = list[k].task
       /\ runResult[k].success => runResult[k].result = list[k].task
  /\ Len(BatchCompletes) = CeilDiv(Len(list), qopts.batchSize)

\* C28: in batch mode without stopOnError and pauseOnError a failed task does
\* not keep any later batch from running: run() returns exactly N results for
\* the N entries pending at its start, in queue order, the failed tasks reported
\* with success = false.
C28_AsStated ==
  (PlainBatchedRunFinished /\ NothingAdded) => AllInQueueOrder(runSnapshot)

\* What the code does guarantee: the same, for runs during which the pending
\* list was not emptied by clear().
C28_FailureContained ==
  (PlainBatchedRunFinished /\ ListUntouched) => AllInQueueOrder(runSnapshot)
\* ------------------------------------------------------------------ C29
\* the counts of a summary
Counts(sm) ==
  [ success |-> sm.success, failed |-> sm.failed, timedOut |-> sm.timedOut,
    retries |-> sm.retries, errors |-> [k \in 1..Len(sm.errors) |-> sm.errors[k].count] ]
RECURSIVE SumCounts(_)
SumCounts(errs) == IF errs = <<>> THEN 0 ELSE errs[1].count + SumCounts(Tail(errs))
\* the failed attempts the results of failed tasks account for
FailedAttemptsOfFailures ==
  SumSeq([p \in 1..Len(results) |->
            IF results[p].success THEN 0 ELSE 1 + Len(slot[p].retryHistory)])

DelayBefore(p, k) == IF k = 1 THEN 0 ELSE slot[p].waited[k - 1]

\* C30: every retryHistory entry records the delay that was waited before the
\* attempt it describes: 0 for attempt 1, and for attempt k > 1 the delay waited
\* before attempt k.
C30_AsStated ==
  \A p \in Positions :
    \A k \in 1..Len(slot[p].retryHistory) :
      slot[p].retryHistory[k].delay = DelayBefore(p, slot[p].retryHistory[k].attempt)

\* What the code does guarantee: the entry of attempt k records the delay of the
\* retry that follows it, calculateRetryDelay(k), which is what is waited before
\* attempt k + 1.
C30_DelayBeforeNext ==
  \A p \in Positions :
    \A k \in 1..Len(slot[p].retryHistory) :
      /\ slot[p].retryHistory[k].attempt = k
      /\ slot[p].retryHistory[k].delay = calculateRetryDelay(k, options.retryDelay)
      /\ Len(slot[p].waited) >= k => slot[p].retryHistory[k].delay = DelayBefore(p, k + 1)
\* ------------------------------------------------------------------ C31
\* C31: a failed result has timedOut = true exactly when the last attempt of its
\* task was ended by the timer, whatever the earlier attempts did, and carries
\* that last attempt's error; an earlier timeout shows only as timedOut = true in
\* the retryHistory entry of its attempt.
C31_LastAttemptDecides ==
  \A p \in Positions :
    (HasResult(p) /\ ~results[p].success) =>
      /\ results[p].timedOut <=> (Last(slot[p].log) = "timeout")
      /\ results[p].error = (IF Last(slot[p].log) = "timeout"
                               THEN TimeoutError(results[p].attempts)
                               ELSE TaskError(results[p].attempts))
      /\ \A k \in 1..Len(results[p].retryHistory) :
           results[p].retryHistory[k].timedOut <=> (slot[p].log[k] = "timeout")

\* one task failed by an error after a timed-out attempt (flag false, history
\* entry flagged), another failed by a timeout after an attempt that raised an
\* error (flag true, history entry not flagged)
C31_Witness ==
  \E p, q \in Positions :
    /\ HasResult(p) /\ slot[p].log = <<"timeout", "error">>
    /\ ~results[p].timedOut /\ results[p].retryHistory[1].timedOut
    /\ HasResult(q) /\ slot[q].log = <<"error", "timeout">>
    /\ results[q].timedOut /\ ~results[q].retryHistory[1].timedOut
\* ------------------------------------------------------------------ C32
\* the number of events called name among the first r events
CountBefore(name, r) == Cardinality({ j \in 1..r : events[j].name = name })

\* Batches run one after the other: every batchStart comes after the
\* batchComplete of each batch started earlier, the base runner works only
\* while a batch is open, and then on that batch's tasks.
C32_Sequential ==
  BatchedQueue =>
    /\ \A r \in EventsNamed("batchStart") :
         CountBefore("batchComplete", r) = CountBefore("batchStart", r - 1)
    /\ qpc = "batch" =>
         /\ Len(BatchStarts) = Len(BatchCompletes) + 1
         /\ tasks = TaskIds(batch)
    /\ qpc # "batch" =>
         /\ Len(BatchStarts) = Len(BatchCompletes)
         /\ pc = "idle"

\* a batch delay is begun only when another batch is to follow: entries lie
\* beyond the batch just completed and the queue is not stopped
DelayOnlyBetween ==
  (BatchedQueue /\ qpc # "delay" /\ qpc' = "delay") =>
    (bi' + qopts.batchSize < Len(qtasks') /\ ~isStopped')

\* C32: batches are strictly sequential (batchComplete(k) precedes
\* batchStart(k+1), no task of a batch starts before the batch before it is
\* through), and the batch delay is waited only between two batches, never
\* after the last one.
C32_AsStated == []C32_Sequential /\ [][DelayOnlyBetween]_vars

\* What the code does guarantee: batches are sequential, a delay is begun only
\* when it is configured and entries lie beyond the batch just completed, stopped
\* or not, and it is followed by another batch unless the queue is stopped or
\* the list was emptied.
C32_DelayUnlessStopped ==
  /\ [](C32_Sequential /\
        ((BatchedQueue /\ qpc = "delay") =>
           (qopts.batchDelay > 0 /\ Len(BatchCompletes) > 0)))
  /\ [][ (BatchedQueue /\ qpc # "delay" /\ qpc' = "delay") =>
           bi' + qopts.batchSize < Len(qtasks') ]_vars
  /\ [][ (BatchedQueue /\ qpc = "delay" /\ qpc' # "delay" /\ ListUntouched /\ ~isStopped) =>
           qpc' \in {"batch", "paused"} ]_vars
\* ------------------------------------------------------------------ C33
\* the tasks are started in submission order: those started so far are the
\* first currentIndex tasks, in their order, and no other task was invoked
StartedInOrder ==
  /\ startOrder = SubSeq(tasks, 1, currentIndex)
  /\ \A p \in Positions : (slot[p].calls > 0) <=> (p <= currentIndex)

\* C33: the scheduler starts tasks in submission order (the first attempt of
\* task i+1 never starts before that of task i), the first min(C, N) tasks are
\* started before it first suspends, and whenever it suspends the executing set
\* holds C tasks or no unscheduled task remains.
C33_SubmissionOrder ==
  /\ [](client = "runner" =>
         /\ StartedInOrder
         /\ pc \in {"await", "returned"} =>
              currentIndex >= Min(options.concurrency, Len(tasks)))
  /\ [][ (client = "runner" /\ pc = "loop" /\ pc' = "await") =>
           /\ raceSet' = executing' /\ executing' # {}
           /\ Cardinality(executing') = options.concurrency \/ currentIndex' = Len(tasks') ]_vars

\* three tasks, two at a time: the second finished first, the third was started
\* in its place, and the scheduler is suspended with tasks 1 and 3 executing
C33_Witness ==
  /\ client = "runner" /\ pc = "await"
  /\ options.concurrency = 2 /\ Len(tasks) = 3
  /\ startOrder = <<1, 2, 3>>
  /\ executing = {1, 3}
  /\ HasResult(2) /\ ~HasResult(1) /\ ~HasResult(3)

\* ------------------------------------------------------------------ C34
\* run has returned with a result in every slot
ReturnedFilled ==
  /\ pc = "returned"
  /\ Len(results) = Len(tasks)
  /\ \A p \in 1..Len(tasks) : HasResult(p)

\* C34: run terminates: when every attempt settles, or a timeout is configured,
\* a call of run, for every number of tasks, every concurrency value (0, which
\* is treated as 1, included) and every retries value, eventually returns with
\* all N result slots filled.
C34_Terminates == (pc # "idle") ~> ReturnedFilled

\* a run constructed with concurrency 0 and a timeout has returned three results,
\* one of them of a task whose two attempts were both ended by the timer
C34_Witness ==
  /\ ReturnedFilled /\ Len(tasks) = 3
  /\ options.concurrency = 1 /\ hasTimeout /\ options.retries = 1
  /\ \E p \in Positions : slot[p].log = <<"timeout", "timeout">>

\* ------------------------------------------------------------------ C35
Unbatched == client = "queue" /\ qopts.batchSize = 0

\* the base runner works on the whole list as it was when run() was called
WholeSetHandedOver ==
  (Unbatched /\ qpc = "all") =>
     /\ Len(tasks) = Len(runSnapshot)
     /\ \A k \in 1..Len(tasks) : tasks[k] = runSnapshot[k].task

\* when the base runner returns, every task of the list was invoked and has a result
AllExecuted ==
  (Unbatched /\ qpc = "all" /\ pc = "returned") =>
     /\ Len(results) = Len(runSnapshot)
     /\ \A k \in 1..Len(runSnapshot) : slot[k].calls >= 1 /\ HasResult(k)

\* run() returns one result per entry that was pending at its call
ReturnsAllResults ==
  (Unbatched /\ qpc = "done") => Len(runResult) = Len(runSnapshot)

\* the flags are changed by a call of pause(), resume() or stop() only
FlagsOnlyByCalls ==
  (Unbatched /\ (isPaused' # isPaused \/ isStopped' # isStopped)) =>
     /\ ctl' = ctl + 1
     /\ UNCHANGED <<runnerVars, qtasks, qpc, runResult, runSnapshot>>

\* the run goes from handed over to returned in the base runner's steps alone
RunNotCut ==
  (Unbatched /\ qpc = "all" /\ qpc' # "all") => (pc = "returned" /\ qpc' = "done")

\* C35: in unbatched mode the whole pending list is handed to the base runner
\* in one call; stop(), pause(), stopOnError and pauseOnError do not affect the
\* run in progress: every task pending at run() is executed, run() returns N
\* results, and a failed task changes neither the paused nor the stopped flag.
C35_UnbatchedRunsAll ==
  /\ [](WholeSetHandedOver /\ AllExecuted /\ ReturnsAllResults)
  /\ [][FlagsOnlyByCalls /\ RunNotCut]_vars

\* an unbatched run with stopOnError, stopped by the caller while two tasks were
\* pending, has returned both results, one of them a failure
C35_Witness ==
  /\ Unbatched /\ qopts.stopOnError /\ qpc = "done"
  /\ isStopped
  /\ Len(runResult) = 2
  /\ ~runResult[1].success /\ runResult[2].success

\* an unbatched run with pauseOnError has returned a failure and the queue is
\* neither paused nor stopped
C35_WitnessPauseOnError ==
  /\ Unbatched /\ qopts.pauseOnError /\ qpc = "done"
  /\ ~isPaused /\ ~isStopped
  /\ \E k \in 1..Len(runResult) : ~runResult[k].success

\* ------------------------------------------------------------------ C36
\* the number of batches of this run that task t was started in
TimesStarted(t) ==
  Cardinality({ r \in 1..Len(events) :
                  /\ events[r].name = "batchStart"
                  /\ \E k \in 1..Len(events[r].b) : events[r].b[k] = t })

\* a batched run in priority order that has returned, neither stopped nor cleared
PriorityRunDone ==
  /\ BatchedQueue /\ qopts.priorityQueue
  /\ qpc = "done"
  /\ ~isStopped
  /\ ~EventAt("clear", 1, Len(events))

\* C36: in a batched run with priority ordering an add() of a higher-priority
\* task during the run does not disturb the dispatch: every entry that was
\* pending when run() was called is executed exactly once in that run.
C36_AsStated ==
  PriorityRunDone =>
    \A k \in 1..Len(runSnapshot) : TimesStarted(runSnapshot[k].task) = 1

\* C36, what the code guarantees: a dispatched batch is not touched by add(),
\* and a run during which the list was left alone executes every entry once.
C36_UndisturbedList ==
  /\ [](PriorityRunDone /\ qtasks = runSnapshot =>
          \A k \in 1..Len(runSnapshot) : TimesStarted(runSnapshot[k].task) = 1)
  /\ [][(BatchedQueue /\ qtasks' # qtasks) => UNCHANGED <<runnerVars, batch, bi, qpc>>]_vars

\* the run whose last entry of batch 1 was started again in batch 2 after an
\* add() of a higher priority, the added entry never being started
C36_Reached ==
  /\ PriorityRunDone
  /\ Len(runSnapshot) = 2 /\ Len(qtasks) = 3
  /\ TimesStarted(runSnapshot[2].task) = 2
  /\ TimesStarted(qtasks[1].task) = 0

\* ------------------------------------------------------------------ C37
\* C37: under any interleaving of pause(), resume(), stop() and a batched run
\* with pauseOnError or stopOnError, status() never reports paused and stopped
\* both true.
C37_AsStated == client = "queue" => ~(status.paused /\ status.stopped)

\* C37, what the code guarantees: a queue with neither error policy never
\* reports both, and no call of pause(), resume() or stop() is the step that
\* makes both true.
C37_CallsKeepExclusive ==
  /\ []((client = "queue" /\ ~qopts.stopOnError /\ ~qopts.pauseOnError) =>
          ~(status.paused /\ status.stopped))
  /\ [][(client = "queue" /\ ~(isPaused /\ isStopped) /\ isPaused' /\ isStopped') =>
          (qpc = "batch" /\ pc = "returned" /\ ctl' = ctl)]_vars

\* paused by the caller during a batch whose failure then stopped the queue
C37_ReachedByStopOnError ==
  /\ client = "queue" /\ qopts.stopOnError
  /\ status.paused /\ status.stopped
  /\ qpc = "done"

\* stopped by the caller during a batch whose failure then paused the queue
C37_ReachedByPauseOnError ==
  /\ client = "queue" /\ qopts.pauseOnError
  /\ status.paused /\ status.stopped

\* ------------------------------------------------------------------ C38
\* the tasks with a body of a timed-out attempt that is still running
Abandoned == { p \in Positions : slot[p].abandoned }

\* Bodies started and not yet settled: the awaited ones, and for every task with
\* abandoned bodies at least one more.
UnsettledBodies == Cardinality(InFlight) + Cardinality(Abandoned)

\* C38: with a timeout and retries configured, the number of task bodies started
\* and not yet settled, the still-running bodies of timed-out attempts included,
\* never exceeds the concurrency limit.
C38_AsStated ==
  (client = "runner" /\ hasTimeout /\ options.retries > 0) =>
     UnsettledBodies <= options.concurrency

\* C38, what the code guarantees: the bodies a call is waiting for never exceed
\* the limit, and there are unsettled bodies beyond these only under a timeout.
C38_AwaitedBodiesBounded ==
  client = "runner" =>
     /\ Cardinality(InFlight) <= options.concurrency
     /\ ~hasTimeout => Abandoned = {}

\* one task at a time: the retry's body runs next to the body of the attempt
\* that timed out
C38_Reached ==
  /\ client = "runner" /\ options.concurrency = 1 /\ hasTimeout
  /\ \E p \in Positions : slot[p].phase = "body" /\ slot[p].abandoned /\ slot[p].attempt = 2

\* ------------------------------------------------------------------ C39
\* the number of events called name that this step emits (run() starts the
\* record of events anew)
Emitted(name) ==
  LET from == IF Len(events') >= Len(events) /\ SubSeq(events', 1, Len(events)) = events
                THEN Len(events) + 1 ELSE 1
  IN Cardinality({ r \in from..Len(events') : events'[r].name = name })

FlagEvents ==
  /\ (~isPaused /\ isPaused') => Emitted("pause") = 1
  /\ (~isStopped /\ isStopped') => Emitted("stop") = 1
  /\ (isPaused' = isPaused /\ isStopped' = isStopped) =>
        (Emitted("pause") = 0 /\ Emitted("resume") = 0 /\ Emitted("stop") = 0)

\* C39: every transition into Paused emits one pause event and every transition
\* into Stopped one stop event, whether made by pause()/stop() or by the
\* pauseOnError/stopOnError trigger, and a step that changes no flag emits no
\* pause, resume or stop event.
C39_AsStated == [][client = "queue" => FlagEvents]_vars

\* C39, what the code guarantees: pause, resume and stop events are emitted by
\* the caller's calls only, at most one per call, and a call that sets a flag
\* or resumes emits the matching event.
CallsAnnounce ==
  /\ ctl' = ctl =>
        (Emitted("pause") = 0 /\ Emitted("resume") = 0 /\ Emitted("stop") = 0)
  /\ ctl' = ctl + 1 =>
        /\ Emitted("pause") + Emitted("resume") + Emitted("stop") <= 1
        /\ (~isPaused /\ isPaused') => Emitted("pause") = 1
        /\ (~isStopped /\ isStopped') => Emitted("stop") = 1
        /\ (isPaused /\ ~isPaused' /\ ~isStopped') => Emitted("resume") = 1

C39_CallsAnnounce == [][client = "queue" => CallsAnnounce]_vars

\* the queue was stopped by stopOnError and its record holds no stop event
C39_ReachedSilentStop ==
  /\ client = "queue" /\ qopts.stopOnError /\ isStopped
  /\ ~EventAt("stop", 1, Len(events))

\* the queue was paused by pauseOnError and its record holds no pause event
C39_ReachedSilentPause ==
  /\ client = "queue" /\ qopts.pauseOnError /\ isPaused
  /\ ~EventAt("pause", 1, Len(events))
  /\ EventAt("batchComplete", 1, Len(events))

\* stop() was called twice and the record holds two stop events
C39_ReachedSecondStop ==
  /\ client = "queue" /\ isStopped
  /\ Cardinality({ r \in 1..Len(events) : events[r].name = "stop" }) = 2

\* ------------------------------------------------------------------ C40
\* a stopped queue on which no run is in progress
StoppedAtRest ==
  /\ client \in {"queue", "byid"}
  /\ isStopped
  /\ pc = "idle"
  /\ qpc \in {"idle", "done"}

\* C40: a stopped queue starts no task through any of its operations: after the
\* queue is Stopped, runBatchById starts no task body, just as run() does not.
C40_AsStated == [][StoppedAtRest => pc' = "idle"]_vars

\* C40, what the code guarantees: run() on a stopped queue throws and starts
\* nothing, and runBatchById starts the base runner only on entries with its tag.
C40_RunRefused ==
  /\ [][(StoppedAtRest /\ client = "queue") =>
          (pc' = "idle" /\ UNCHANGED <<runnerVars, qpc, runSnapshot>>)]_vars
  /\ []((client = "byid" /\ qpc = "byId") =>
          /\ Len(batch) > 0 /\ Len(tasks) = Len(batch)
          /\ \E id \in BatchIds : \A k \in 1..Len(batch) :
                batchIdOf(batch[k]) = id /\ tasks[k] = batch[k].task)

\* stop() was called on a queue at rest, and a batch run by id afterwards has
\* returned the results of its two tasks
C40_Reached ==
  /\ client = "byid" /\ isStopped /\ qpc = "idle"
  /\ events = <<Event("stop", 0, 0)>>
  /\ ctl = 2
  /\ Len(runResult) = 2
====
